---- MODULE Spec2Model ----
(***************************************************************************)
(* The MCP dispatch engine (src/src/mcp/core.ts), its session registry and *)
(* the Upstox authentication state machine (UpstoxAuthManager), as a state *)
(* machine.  Times are milliseconds since process start, as Date.getTime() *)
(* differences are.  An action is one synchronous run of the event loop:   *)
(* a processRequest call up to its await, a handler completion, a timer    *)
(* callback, or the passage of time.                                       *)
(***************************************************************************)
EXTENDS Integers, Sequences, FiniteSets, TLC

\* ------------------------------------------------------------- bounds
\* uuidv4() is modelled by a counter; at most MaxSessions ids are issued.
MaxSessions == 2
\* The clock stops after MaxGrains grains of ClockGrain milliseconds.
MaxGrains == 2
\* Requests awaiting their handler's completion at one time.
MaxInflight == 1

\* The clock visits k*ClockGrain - 1 and k*ClockGrain for every k, so both
\* sides of every millisecond boundary the code compares against are reached.
ClockGrain == 30 * 60 * 1000
Horizon == MaxGrains * ClockGrain

\* ------------------------------------------------- program constants
SESSION_CLEANUP_INTERVAL == 30 * 60 * 1000
SESSION_EXPIRY_TIME == 60 * 60 * 1000

\* The error codes, as the literals of the call sites.
CODE_INVALID_REQUEST == -32600
CODE_METHOD_NOT_FOUND == -32601
CODE_INVALID_SESSION == -32000
CODE_SESSION_REQUIRED_SameAsInvalid == CODE_INVALID_SESSION
CODE_SESSION_REQUIRED == -32602
CODE_CORE_INTERNAL == -32000
CODE_HTTP_INTERNAL == -32603
CODE_WS_PARSE == -32700
CODE_STDIO_PARSE == -32700

\* ------------------------------------------------------------ values
\* params.session_id: absent (or falsy), an id this process issued, or a
\* string no uuidv4() call ever returned.
NoSid == 0
UnknownSid == MaxSessions + 1
IssuedIds == 1..MaxSessions

\* request.id: a client-chosen correlation token.
RequestIds == {"7", "req-a"}

\* The handshake is held to the session checks like any other method.
ExemptMethods_WithoutHandshake == {"mcp.discover", "mcp.session.start"}

ExemptMethods == {"mcp.discover", "mcp.session.start", "initialize"}

\* The names the server registers before serving (McpCore.initialize,
\* McpResources.initialize), each with the function bound to it.
RegisteredAtStartup ==
  [m \in {"mcp.discover", "mcp.session.start", "mcp.session.end", "initialize",
          "mcp.resources.list", "mcp.resources.get", "mcp.tools.list",
          "mcp.tools.execute"} |->
     CASE m = "mcp.discover" -> "discoverClosure"
       [] m = "mcp.session.start" -> "handleSessionStart"
       [] m = "mcp.session.end" -> "handleSessionEnd"
       [] m = "initialize" -> "handleClientInitialize"
       [] m = "mcp.resources.list" -> "listResources"
       [] m = "mcp.resources.get" -> "getResource"
       [] m = "mcp.tools.list" -> "listTools"
       [] m = "mcp.tools.execute" -> "executeTool"]

\* methodHandlers is an object literal ({}), so a property read that finds no
\* own property continues on Object.prototype.  Two of its members: a
\* function, and the accessor __proto__, whose value is Object.prototype
\* itself (truthy, not callable).
ObjectPrototypeMembers == {"toString", "__proto__"}

\* The methods of McpTools; calls of them are made in ServiceSpec.
ToolMethods == {"mcp.tools.list", "mcp.tools.execute"}

\* Method names a client may send: the registered ones, one that nothing
\* defines, and two that only Object.prototype defines.
MethodNames ==
  (DOMAIN RegisteredAtStartup \ ToolMethods) \cup {"foo.bar"} \cup ObjectPrototypeMembers

ProtocolVersions == {"2024-11-05", "0.1"}
NoVersion == "-"

\* A request envelope: request.params carries session_id (sid) and, for the
\* initialize handshake, protocolVersion (pv).
Envelope(tag, id, method, sid, pv) ==
  [jsonrpc |-> tag, id |-> id, method |-> method, sid |-> sid, pv |-> pv]

\* The requests clients send: every '2.0' request over the method names and
\* session ids, and requests with another protocol tag for a registered
\* method, an unregistered one and a handshake, with and without a session.
Requests ==
  {Envelope("2.0", id, m, sid, NoVersion) :
     id \in RequestIds, m \in MethodNames \ {"initialize"},
     sid \in {NoSid, UnknownSid} \cup IssuedIds}
  \cup
  {Envelope("2.0", id, "initialize", sid, pv) :
     id \in RequestIds, sid \in {NoSid, UnknownSid} \cup IssuedIds, pv \in ProtocolVersions}
  \cup
  {Envelope("1.0", id, m, sid, NoVersion) :
     id \in RequestIds, m \in {"mcp.session.end", "mcp.session.start", "foo.bar"},
     sid \in {NoSid, 1}}

\* Messages are the pieces of the template literal that builds them.
Message(prefix, detail) == <<prefix, detail>>
Fixed(text) == <<text>>
NoMessage == << >>

\* What a broker-backed handler's promise may reject with (Error.message).
HandlerFailures == {"Resource not found: quux", "Request failed with status code 500"}

\* A handler's return value: a tag, the session id it carries (0: none) and
\* the protocol version it carries.
Value(tag, sid, pv) == [tag |-> tag, session_id |-> sid, protocol_version |-> pv]
NoValue == Value("-", 0, NoVersion)

VARIABLES
  sessions,        \* the module-level Map of core.ts: id -> McpSession
  nextUuid,        \* the next id uuidv4() returns
  methodHandlers,  \* McpCore.methodHandlers: own properties of the object
  now,             \* the system clock, ms
  nextCleanup,     \* when the setInterval timer is next due
  inflight,        \* requests whose handler was invoked and has not settled
  swept,           \* the ids the cleanup timer has removed
  last,            \* the last processRequest call that settled
  config,          \* config.upstox, as loaded and validated at startup
  authState,       \* UpstoxAuthManager.state
  exchanges,       \* authenticateWithCode calls awaiting axios.post
  emitted,         \* the last 'auth_change' event: a parity bit and its payload
  lastAuth,        \* the last auth or broker operation that returned or threw
  granted,         \* the expiry of the last token an exchange or setToken installed
  brokerCalls,     \* broker requests sent and not yet answered
  wall,            \* the wall clock the auth manager reads, s from a local midnight
  inbox,           \* the messages the transports received, in order of arrival
  awaiting,        \* the received messages whose processRequest call awaits its handler
  outbox,          \* what the transports wrote back, in the order written
  toolRun,         \* the mcp.tools.execute call that awaits the broker, if any
  served,          \* the last resources.list or tools.execute call that settled
  environ,         \* process.env as config.ts reads it
  startup          \* how loading and validating the configuration ended

coreVars == <<sessions, nextUuid, methodHandlers, now, nextCleanup, inflight, swept, last>>
authVars == <<config, authState, exchanges, emitted, lastAuth, granted, brokerCalls>>
wireVars == <<inbox, awaiting, outbox>>
serviceVars == <<toolRun, served>>
bootVars == <<environ, startup>>
edgeVars == <<inbox, awaiting, outbox, toolRun, served, environ, startup>>
vars == <<sessions, nextUuid, methodHandlers, now, nextCleanup, inflight, swept, last,
          config, authState, exchanges, emitted, lastAuth, granted, brokerCalls, wall,
          inbox, awaiting, outbox, toolRun, served, environ, startup>>

\* ------------------------------------------------------ the registry

\* metadata is what the caller's params gave (params itself for
\* mcp.session.start, its clientInfo and protocolVersion for initialize);
\* the dispatcher never reads it.
Session(id, t, meta) ==
  [id |-> id, createdAt |-> t, lastAccessedAt |-> t, metadata |-> meta]

MapSet(S, id, rec) == [k \in DOMAIN S \cup {id} |-> IF k = id THEN rec ELSE S[k]]
MapDelete(S, id) == [k \in DOMAIN S \ {id} |-> S[k]]

validateSession_NoExpiry(S, sessionId, t) == sessionId \in DOMAIN S

validateSession_Inclusive(S, sessionId, t) ==
  /\ sessionId \in DOMAIN S
  /\ t - S[sessionId].lastAccessedAt <= SESSION_EXPIRY_TIME

validateSession(S, sessionId, t) ==
  /\ sessionId \in DOMAIN S
  /\ t - S[sessionId].lastAccessedAt < SESSION_EXPIRY_TIME

updateSessionActivity_Noop(S, sessionId, t) == S

\* The session is replaced by a new record under the same id.
updateSessionActivity_Recreates(S, sessionId, t) ==
  IF sessionId \in DOMAIN S
    THEN [S EXCEPT ![sessionId] = Session(sessionId, t, "params")]
    ELSE S

updateSessionActivity(S, sessionId, t) ==
  IF sessionId \in DOMAIN S
    THEN [S EXCEPT ![sessionId].lastAccessedAt = t]
    ELSE S

\* The sweep removes a session only after two hours of idleness.
cleanupSessions_TwoHours(S, t) ==
  [k \in {i \in DOMAIN S : ~(t - S[i].lastAccessedAt >= 2 * SESSION_EXPIRY_TIME)} |-> S[k]]

cleanupSessions_Strict(S, t) ==
  [k \in {i \in DOMAIN S : ~(t - S[i].lastAccessedAt > SESSION_EXPIRY_TIME)} |-> S[k]]

cleanupSessions(S, t) ==
  [k \in {i \in DOMAIN S : ~(t - S[i].lastAccessedAt >= SESSION_EXPIRY_TIME)} |-> S[k]]

\* ---------------------------------------------------- the dispatcher

Undefined == "undefined"

\* this.methodHandlers[request.method]
LookupHandler(H, method) ==
  IF method \in DOMAIN H THEN H[method]
  ELSE IF method = "toString" THEN "Object.prototype.toString"
  ELSE IF method = "__proto__" THEN "Object.prototype"
  ELSE Undefined

Callable(handler) == handler \notin {Undefined, "Object.prototype"}

Response(id, isError, code, message, result) ==
  [jsonrpc |-> "2.0", id |-> id, isError |-> isError, code |-> code,
   message |-> message, result |-> result]
NoResponse == Response("-", FALSE, 0, NoMessage, NoValue)

createErrorResponse_ZeroId(id, code, message) ==
  Response("0", TRUE, code, message, NoValue)

createErrorResponse(id, code, message) ==
  Response(id, TRUE, code, message, NoValue)

\* Lines 129-133.
ResultResponse(id, result) == Response(id, FALSE, 0, NoMessage, result)

\* How the promise processRequest returned settled: resolved with a response
\* envelope, or rejected with a failure.
Resolved(response) == [resolved |-> TRUE, resp |-> response]
Rejected(failure) ==
  [resolved |-> FALSE, resp |-> Response("-", TRUE, 0, Fixed(failure), NoValue)]

\* The catch block, lines 134-141.
catchBlock_Rethrows(request, failure) == Rejected(failure)

catchBlock(request, failure) ==
  Resolved(createErrorResponse(request.id, CODE_CORE_INTERNAL,
                               Message("Internal error: ", failure)))

\* The handlers that settle in the run that called them, each as the value
\* it returns and the registry it leaves.
Handled(value, S, uuid) == [value |-> value, sessions |-> S, nextUuid |-> uuid]

\* The new session takes the lowest id the registry does not hold.
handleSessionStart_ReissuesIds(S, uuid, t) ==
  LET id == CHOOSE k \in 1..uuid : k \notin DOMAIN S /\ \A j \in 1..(k - 1) : j \in DOMAIN S
  IN Handled(Value("session", id, NoVersion), MapSet(S, id, Session(id, t, "params")),
             IF id = uuid THEN uuid + 1 ELSE uuid)

handleSessionStart(S, uuid, t) ==
  Handled(Value("session", uuid, NoVersion),
          MapSet(S, uuid, Session(uuid, t, "params")), uuid + 1)

\* The handshake answers with a session the registry already holds.
handleClientInitialize_ReusesSession(S, uuid, t, protocolVersion) ==
  IF DOMAIN S = {}
    THEN Handled(Value("initialized", uuid, protocolVersion),
                 MapSet(S, uuid, Session(uuid, t, "params")), uuid + 1)
    ELSE Handled(Value("initialized", CHOOSE k \in DOMAIN S : TRUE, protocolVersion), S, uuid)

handleClientInitialize(S, uuid, t, protocolVersion) ==
  Handled(Value("initialized", uuid, protocolVersion),
          MapSet(S, uuid, Session(uuid, t, "params")), uuid + 1)

handleSessionEnd_KeepsSession(S, uuid, session_id) ==
  Handled(Value("void", 0, NoVersion), S, uuid)

handleSessionEnd(S, uuid, session_id) ==
  Handled(Value("void", 0, NoVersion), MapDelete(S, session_id), uuid)

\* What one processRequest call does in the run that made it: either it
\* settles (settled, with the function it called as handler, "none" if it
\* called nothing), or it is left awaiting its handler (pending); and the
\* registry and uuid counter it leaves.
Outcome(pending, settled, invoked, S, uuid) ==
  [pending |-> pending, settled |-> settled, invoked |-> invoked,
   sessions |-> S, nextUuid |-> uuid]

Returns(request, handler, h) ==
  Outcome(FALSE, Resolved(ResultResponse(request.id, h.value)), handler,
          h.sessions, h.nextUuid)

\* (handler as Function)(request.params || {}), lines 126-133, with the
\* registry as S after the session checks.
InvokeHandler(handler, request, S, uuid, t) ==
  CASE handler = "discoverClosure" ->
         Returns(request, handler, Handled(Value("capabilities", 0, NoVersion), S, uuid))
    [] handler = "handleSessionStart" ->
         Returns(request, handler, handleSessionStart(S, uuid, t))
    [] handler = "handleClientInitialize" ->
         Returns(request, handler, handleClientInitialize(S, uuid, t, request.pv))
    [] handler = "handleSessionEnd" ->
         Returns(request, handler, handleSessionEnd(S, uuid, request.sid))
    [] handler = "listResources" ->
         Returns(request, handler, Handled(Value("resources", 0, NoVersion), S, uuid))
    [] handler = "getResource" ->
         Outcome(TRUE, Resolved(NoResponse), handler, S, uuid)
    [] handler = "listTools" ->
         Returns(request, handler, Handled(Value("tools", 0, NoVersion), S, uuid))
    [] handler = "executeTool" ->
         Outcome(TRUE, Resolved(NoResponse), handler, S, uuid)
    [] handler = "Object.prototype.toString" ->
         Returns(request, handler, Handled(Value("[object Undefined]", 0, NoVersion), S, uuid))
    [] ~Callable(handler) ->
         Outcome(FALSE, catchBlock(request, "handler is not a function"), "none", S, uuid)

Rejects(request, code, message, S, uuid) ==
  Outcome(FALSE, Resolved(createErrorResponse(request.id, code, message)), "none", S, uuid)

\* processRequest, lines 93-142, up to the await of line 127.
processRequest(request, H, S, uuid, t) ==
  LET handler == LookupHandler(H, request.method)
      sessionId == request.sid
  IN
  IF request.jsonrpc # "2.0" THEN
    Rejects(request, CODE_INVALID_REQUEST, Fixed("Invalid Request: Not JSON-RPC 2.0"), S, uuid)
  ELSE IF handler = Undefined THEN
    Rejects(request, CODE_METHOD_NOT_FOUND, Message("Method not found: ", request.method),
            S, uuid)
  ELSE IF request.method \in ExemptMethods THEN
    InvokeHandler(handler, request, S, uuid, t)
  ELSE IF sessionId = NoSid THEN
    Rejects(request, CODE_SESSION_REQUIRED, Fixed("Session ID is required"), S, uuid)
  ELSE IF ~validateSession(S, sessionId, t) THEN
    Rejects(request, CODE_INVALID_SESSION, Fixed("Invalid or expired session"), S, uuid)
  ELSE
    InvokeHandler(handler, request, updateSessionActivity(S, sessionId, t), uuid, t)

\* A settled call: how it settled and the function called as its handler.
Settled(settled, invoked) ==
  [resolved |-> settled.resolved, resp |-> settled.resp, invoked |-> invoked]
NoCall == Settled(Resolved(NoResponse), "none")

\* The dispatcher and the registry after construction and initialization.
CoreInit ==
  /\ sessions = << >>
  /\ nextUuid = 1
  /\ now = 0
  /\ methodHandlers = RegisteredAtStartup
  /\ nextCleanup = SESSION_CLEANUP_INTERVAL
  /\ inflight = {}
  /\ swept = {}
  /\ last = NoCall

\* A client only knows the ids the server has returned to some client.
Sendable(request) == request.sid \in IssuedIds => request.sid < nextUuid

\* A transport hands one request to processRequest.
Request(request) ==
  /\ Sendable(request)
  /\ \E o \in {processRequest(request, methodHandlers, sessions, nextUuid, now)} :
       /\ o.nextUuid <= MaxSessions + 1
       /\ sessions' = o.sessions
       /\ nextUuid' = o.nextUuid
       /\ IF o.pending
            THEN /\ Cardinality(inflight) < MaxInflight
                 /\ request \notin inflight
                 /\ inflight' = inflight \cup {request}
                 /\ UNCHANGED last
            ELSE /\ last' = Settled(o.settled, o.invoked)
                 /\ UNCHANGED inflight
  /\ UNCHANGED <<methodHandlers, now, nextCleanup, swept>>
  /\ UNCHANGED <<authVars, wall, edgeVars>>

\* The session is validated again when the handler's promise has settled.
resumeAfterAwait_RevalidatesSession(request, S, t, value) ==
  IF validateSession(S, request.sid, t)
    THEN Resolved(ResultResponse(request.id, value))
    ELSE Resolved(createErrorResponse(request.id, CODE_INVALID_SESSION,
                                      Fixed("Invalid or expired session")))

\* processRequest after the await of line 127, with the registry as S: the
\* value the handler's promise fulfilled with is wrapped and returned.
resumeAfterAwait(request, S, t, value) == Resolved(ResultResponse(request.id, value))

\* The awaited handler promise fulfils: lines 127-133.
HandlerFulfils(request) ==
  /\ request \in inflight
  /\ inflight' = inflight \ {request}
  /\ last' = Settled(resumeAfterAwait(request, sessions, now, Value("content", 0, NoVersion)),
                     "getResource")
  /\ UNCHANGED <<sessions, nextUuid, methodHandlers, now, nextCleanup, swept>>
  /\ UNCHANGED <<authVars, wall, edgeVars>>

\* The awaited handler promise rejects: lines 134-141.
HandlerRejects(request, failure) ==
  /\ request \in inflight
  /\ inflight' = inflight \ {request}
  /\ last' = Settled(catchBlock(request, failure), "getResource")
  /\ UNCHANGED <<sessions, nextUuid, methodHandlers, now, nextCleanup, swept>>
  /\ UNCHANGED <<authVars, wall, edgeVars>>

\* setInterval(() => this.cleanupSessions(), SESSION_CLEANUP_INTERVAL): the
\* callback runs when the timer is due, after whatever requests arrived at
\* that same instant and were handled first, and is then due again one
\* interval later.
CleanupTimer ==
  /\ now = nextCleanup
  /\ sessions' = cleanupSessions(sessions, now)
  /\ swept' = swept \cup (DOMAIN sessions \ DOMAIN sessions')
  /\ nextCleanup' = now + SESSION_CLEANUP_INTERVAL
  /\ UNCHANGED <<nextUuid, methodHandlers, now, inflight, last>>
  /\ UNCHANGED <<authVars, wall, edgeVars>>

\* Time passes: to the last millisecond of the grain, then to its end.
Tick ==
  /\ now < Horizon
  /\ now < nextCleanup
  /\ now' = IF now % ClockGrain = ClockGrain - 1 THEN now + 1 ELSE now + ClockGrain - 1
  /\ UNCHANGED <<sessions, nextUuid, methodHandlers, nextCleanup, inflight, swept, last>>
  /\ UNCHANGED <<authVars, wall, edgeVars>>

\* ------------------------------------------- the auth state machine
\* UpstoxAuthManager.  Its Dates are wall-clock instants, here in seconds
\* from a local midnight, so that setDate and setHours are arithmetic on them
\* and 31 days fit the checker's integers.

\* Days of the auth clock before and after its 30-day jump.
MaxAuthDays == 2
\* authenticateWithCode calls in flight at one time.
MaxExchanges == 1
\* Broker requests in flight at one time.
MaxBrokerCalls == 1

DAY == 24 * 60 * 60
CUTOVER == (3 * 60 + 30) * 60
SANDBOX_EXTRA_DAYS == 30

\* The times of day the auth clock visits: midnight, both sides of the
\* 03:30 cutover, and noon.
TimesOfDay == {0, CUTOVER - 1, CUTOVER, 12 * 60 * 60}

NoToken == "null"
NoExpiry == -1
ConfiguredToken == "configured-token"
UpstreamTokens == {"oauth-token-1", "oauth-token-2"}
NotifiedTokens == {"notified-token"}
AuthCodes == {"code-1"}

AuthState(token, expiry, authorized) ==
  [accessToken |-> token, tokenExpiry |-> expiry, isAuthorized |-> authorized]
Unauthenticated == AuthState(NoToken, NoExpiry, FALSE)

\* The configurations validateConfig accepts: the active environment has a
\* token whenever the method is access_token.
Config(environment, authMethod, liveToken, sandboxToken) ==
  [environment |-> environment, authMethod |-> authMethod,
   liveAccessToken |-> liveToken, sandboxAccessToken |-> sandboxToken]

getCredentials(c) ==
  [accessToken |-> IF c.environment = "live" THEN c.liveAccessToken
                   ELSE IF c.environment = "sandbox" THEN c.sandboxAccessToken
                   ELSE ""]

Configurations ==
  {c \in {Config(e, m, l, sb) : e \in {"live", "sandbox"},
                                m \in {"access_token", "api_key_secret"},
                                l \in {"", ConfiguredToken}, sb \in {"", ConfiguredToken}} :
     /\ (c.environment = "live" => c.sandboxAccessToken = "")
     /\ (c.environment = "sandbox" => c.liveAccessToken = "")
     /\ (c.authMethod = "access_token" => getCredentials(c).accessToken # "")}

StartOfDay(t) == t - (t % DAY)

\* d = new Date(t); d.setDate(d.getDate() + days); d.setHours(3, 30, 0, 0)
AtCutover(t, days) == StartOfDay(t) + days * DAY + CUTOVER

\* Lines 36-43 and 161-168: tomorrow at 03:30, and a day more if that is past.
StandardExpiry(t) ==
  LET tokenExpiry == AtCutover(t, 1)
  IN IF tokenExpiry < t THEN tokenExpiry + DAY ELSE tokenExpiry

\* initializeFromConfig's expiry.
ConfigExpiry(t, environment) ==
  IF environment = "sandbox"
    THEN StandardExpiry(t) + SANDBOX_EXTRA_DAYS * DAY
    ELSE StandardExpiry(t)

\* getAccessToken's expiry for the configured token, lines 87-89.
FallbackExpiry(t, environment) ==
  AtCutover(t, IF environment = "sandbox" THEN 30 ELSE 1)

\* An expiry at today's cutover, whatever the days.
SetTokenExpiry_Today(t, expiryDays) == StartOfDay(t) + CUTOVER

\* setToken's expiry, lines 198-204.
SetTokenExpiry(t, expiryDays) ==
  IF expiryDays = 1 THEN AtCutover(t, 1) ELSE t + expiryDays * DAY

TokenUsable_IgnoresExpiry(st, t) == st.accessToken # NoToken

\* this.state.accessToken && this.state.tokenExpiry && this.state.tokenExpiry > new Date()
TokenUsable(st, t) ==
  /\ st.accessToken # NoToken
  /\ st.tokenExpiry # NoExpiry
  /\ st.tokenExpiry > t

\* The constructor: initializeFromConfig at instant t.
initializeFromConfig(c, t) ==
  IF c.authMethod = "access_token" /\ getCredentials(c).accessToken # ""
    THEN AuthState(getCredentials(c).accessToken, ConfigExpiry(t, c.environment), TRUE)
    ELSE Unauthenticated

\* An auth operation's outcome: what it returned, or the message of the
\* Error it threw.
Returned(op, value) == [op |-> op, ok |-> TRUE, value |-> value]
Threw(op, message) == [op |-> op, ok |-> FALSE, value |-> message]
NoAuthCall == Returned("-", NoMessage)

NoEvent == [parity |-> 0, payload |-> Unauthenticated]
Emit(st) == emitted' = [parity |-> 1 - emitted.parity, payload |-> st]

AuthInitAt(c, t) ==
  /\ config = c
  /\ wall = t
  /\ authState = initializeFromConfig(c, t)
  /\ exchanges = {}
  /\ emitted = NoEvent
  /\ lastAuth = NoAuthCall
  /\ granted = NoExpiry
  /\ brokerCalls = 0

\* What an auth operation leaves: the state, and what it returned or threw.
AuthOutcome(state, result) == [state |-> state, result |-> result]

\* getAccessToken's use of the configured token, lines 81-97.
ConfiguredFallback_Throws(c, st, t) ==
  AuthOutcome(st, Threw("getAccessToken",
                        Fixed("Access token not found in configuration or state")))

ConfiguredFallback(c, st, t) ==
  IF getCredentials(c).accessToken # ""
    THEN AuthOutcome(AuthState(getCredentials(c).accessToken,
                               FallbackExpiry(t, c.environment), TRUE),
                     Returned("getAccessToken", Fixed(getCredentials(c).accessToken)))
    ELSE AuthOutcome(st, Threw("getAccessToken",
                               Fixed("Access token not found in configuration or state")))

NOT_AUTHENTICATED == Fixed("Not authenticated with Upstox. Please authenticate first.")
TOKEN_EXPIRED == Fixed("Upstox token has expired. Re-authorization required.")

\* The Error of the API key + secret flow, lines 106-112.
OAuthFailure_AlwaysExpired(st) == TOKEN_EXPIRED

OAuthFailure(st) == IF ~st.isAuthorized THEN NOT_AUTHENTICATED ELSE TOKEN_EXPIRED

\* getAccessToken, lines 70-113, called at instant t in state st.
AccessTokenCall(c, st, t) ==
  IF c.authMethod = "access_token" THEN
    IF TokenUsable(st, t)
      THEN AuthOutcome(st, Returned("getAccessToken", Fixed(st.accessToken)))
      ELSE ConfiguredFallback(c, st, t)
  ELSE IF TokenUsable(st, t)
    THEN AuthOutcome(st, Returned("getAccessToken", Fixed(st.accessToken)))
    ELSE AuthOutcome(st, Threw("getAccessToken", OAuthFailure(st)))

\* A caller other than the broker client (isReady) calls getAccessToken.
getAccessToken ==
  /\ \E o \in {AccessTokenCall(config, authState, wall)} :
       /\ authState' = o.state
       /\ lastAuth' = o.result
  /\ UNCHANGED <<config, exchanges, emitted, granted, brokerCalls>>
  /\ UNCHANGED <<coreVars, wall, edgeVars>>

\* authenticateWithCode up to its await: GET /callback?code=...
ExchangeStarts(authCode) ==
  /\ Cardinality(exchanges) < MaxExchanges
  /\ authCode \notin exchanges
  /\ exchanges' = exchanges \cup {authCode}
  /\ UNCHANGED <<config, authState, emitted, lastAuth, granted, brokerCalls>>
  /\ UNCHANGED <<coreVars, wall, edgeVars>>

\* axios.post resolved with a body that has an access_token: lines 157-180.
\* The new token is stored and the expiry of the state is left as it was.
authenticateWithCode_TokenOnly(st, t, token) == AuthState(token, st.tokenExpiry, TRUE)

authenticateWithCode_Succeeded(st, t, token) == AuthState(token, StandardExpiry(t), TRUE)

ExchangeSucceeds(authCode, token) ==
  /\ authCode \in exchanges
  /\ exchanges' = exchanges \ {authCode}
  /\ authState' = authenticateWithCode_Succeeded(authState, wall, token)
  /\ Emit(authState')
  /\ lastAuth' = Returned("authenticateWithCode", Fixed(token))
  /\ granted' = authState'.tokenExpiry
  /\ UNCHANGED <<config, brokerCalls>>
  /\ UNCHANGED <<coreVars, wall, edgeVars>>

\* The ways the exchange fails: no response at all (error.message), an error
\* status whose body has a message, has none, or is null (reading .message
\* of it throws inside the catch block), and a 2xx body without an
\* access_token.
AxiosMessage == "Request failed with status code 401"
ExchangeFailures ==
  { [kind |-> "network", upstream |-> "", axios |-> "connect ECONNREFUSED"],
    [kind |-> "status", upstream |-> "Invalid Auth code", axios |-> AxiosMessage],
    [kind |-> "status", upstream |-> "", axios |-> AxiosMessage],
    [kind |-> "status_null_body", upstream |-> "", axios |-> AxiosMessage],
    [kind |-> "no_token", upstream |-> "", axios |-> ""] }

\* The message of the Error the catch block throws, lines 184-190.
ExchangeErrorMessage(failure) ==
  CASE failure.kind = "status" ->
         Message("Authentication failed: ",
                 IF failure.upstream # "" THEN failure.upstream ELSE failure.axios)
    [] failure.kind = "status_null_body" ->
         Fixed("Cannot read properties of null (reading 'message')")
    [] failure.kind = "network" ->
         Message("Authentication failed: ", failure.axios)
    [] failure.kind = "no_token" ->
         Message("Authentication failed: ", "Failed to obtain access token from Upstox")

\* The auth state a failed exchange leaves.
authenticateWithCode_LogsOut(st, failure) == Unauthenticated

authenticateWithCode_Failed(st, failure) == st

ExchangeFails(authCode, failure) ==
  /\ authCode \in exchanges
  /\ exchanges' = exchanges \ {authCode}
  /\ authState' = authenticateWithCode_Failed(authState, failure)
  /\ lastAuth' = Threw("authenticateWithCode", ExchangeErrorMessage(failure))
  /\ UNCHANGED <<config, emitted, granted, brokerCalls>>
  /\ UNCHANGED <<coreVars, wall, edgeVars>>

\* setToken(token, expiryDays), lines 196-215; POST /notifier passes 30 days
\* for sandbox and 1 for live.
setToken(token, expiryDays) ==
  /\ authState' = AuthState(token, SetTokenExpiry(wall, expiryDays), TRUE)
  /\ Emit(authState')
  /\ lastAuth' = Returned("setToken", Fixed(token))
  /\ granted' = authState'.tokenExpiry
  /\ UNCHANGED <<config, exchanges, brokerCalls>>
  /\ UNCHANGED <<coreVars, wall, edgeVars>>

\* logout(), lines 220-228.
logout ==
  /\ authState' = Unauthenticated
  /\ Emit(authState')

\* The broker client (api.ts).  Its request interceptor calls getAccessToken
\* and sends the request with the token, or fails the call if that throws.
BrokerCallStarts ==
  /\ brokerCalls < MaxBrokerCalls
  /\ \E o \in {AccessTokenCall(config, authState, wall)} :
       /\ authState' = o.state
       /\ lastAuth' = o.result
       /\ brokerCalls' = IF o.result.ok THEN brokerCalls + 1 ELSE brokerCalls
  /\ UNCHANGED <<config, exchanges, emitted, granted>>
  /\ UNCHANGED <<coreVars, wall, edgeVars>>

\* The upstream answers 2xx: the response interceptor passes it on.
BrokerCallSucceeds ==
  /\ brokerCalls > 0
  /\ brokerCalls' = brokerCalls - 1
  /\ lastAuth' = Returned("broker.request", Fixed("data"))
  /\ UNCHANGED <<config, authState, exchanges, emitted, granted>>
  /\ UNCHANGED <<coreVars, wall, edgeVars>>

\* How a sent request fails: an error status, or no response at all.
NoStatus == "none"
BrokerStatuses == {"401", "403", "500", NoStatus}

\* error.response && error.response.status === 401, api.ts line 52.
ForcesLogout_AnyStatus(status) == status # NoStatus

ForcesLogout(status) == status = "401"

\* handleApiError, api.ts lines 245-261.
BrokerErrorMessage(status) ==
  IF status # NoStatus
    THEN <<"API Error ", status, ": ", "Request failed with status code ", status>>
    ELSE Message("Failed to fetch user profile: ", "Network Error")

\* The upstream answers with an error or not at all: the response
\* interceptor (api.ts lines 50-58) logs out on a 401 and rejects either way.
BrokerCallFails(status) ==
  /\ brokerCalls > 0
  /\ brokerCalls' = brokerCalls - 1
  /\ IF ForcesLogout(status) THEN logout ELSE UNCHANGED <<authState, emitted>>
  /\ lastAuth' = Threw("broker.request", BrokerErrorMessage(status))
  /\ UNCHANGED <<config, exchanges, granted>>
  /\ UNCHANGED <<coreVars, wall, edgeVars>>

\* The auth clock moves to the next time of day it visits.
NextTimeOfDay(t) ==
  LET later == {x \in TimesOfDay : x > t % DAY}
  IN IF later = {} THEN StartOfDay(t) + DAY
     ELSE StartOfDay(t) + CHOOSE x \in later : \A y \in later : x <= y

AuthTick ==
  /\ \/ wall < MaxAuthDays * DAY
     \/ wall >= SANDBOX_EXTRA_DAYS * DAY /\ wall < (SANDBOX_EXTRA_DAYS + MaxAuthDays) * DAY
  /\ wall' = NextTimeOfDay(wall)
  /\ UNCHANGED authVars
  /\ UNCHANGED <<coreVars, edgeVars>>

\* Thirty days pass.
AuthJump ==
  /\ wall < MaxAuthDays * DAY
  /\ wall' = wall + SANDBOX_EXTRA_DAYS * DAY
  /\ UNCHANGED authVars
  /\ UNCHANGED <<coreVars, edgeVars>>

\* ------------------------------------------------------ the transports
\* server.ts: POST /mcp, the WebSocket 'message' handler and the stdio
\* 'line' handler.  Each hands what it received to processRequest and writes
\* the response back on the channel the message came from.

\* Messages the transports receive in one run.
MaxMessages == 3

Channels == {"http", "ws", "stdio"}

\* A text on the wire: the text itself or, when it is the JSON of a request
\* object, the word "envelope" and that object.
NoEnvelope == Envelope("-", "-", "-", NoSid, NoVersion)
WireText(raw, env) == [raw |-> raw, env |-> env]
Serialized(request) == WireText("envelope", request)

\* Texts that are not JSON, JSON that is not an object, and an object with
\* no members.
MalformedTexts == {"{not json", ""}
NonObjectTexts == {"null", "5", "[]"}
RawTexts == MalformedTexts \cup NonObjectTexts \cup {"{}"}

\* The request objects sent over the wire.
WireRequests ==
  {Envelope("2.0", "7", "mcp.session.start", NoSid, NoVersion),
   Envelope("2.0", "7", "mcp.resources.get", 1, NoVersion),
   Envelope("2.0", "req-a", "mcp.resources.get", 1, NoVersion),
   Envelope("2.0", "req-a", "mcp.resources.list", 1, NoVersion),
   Envelope("1.0", "7", "mcp.session.start", NoSid, NoVersion)}

WireTexts ==
  {WireText(raw, NoEnvelope) : raw \in RawTexts} \cup {Serialized(r) : r \in WireRequests}

\* What a parser makes of a text: it throws, or it returns a value of some
\* kind; for an object, the members processRequest reads.
Thrown(message) == [threw |-> TRUE, message |-> message, kind |-> "-", env |-> NoEnvelope]
Parsed(kind, env) == [threw |-> FALSE, message |-> "", kind |-> kind, env |-> env]

\* Reading jsonrpc, id, method or params of a number, an array or {} yields
\* undefined.
NoMembers == Envelope(Undefined, Undefined, Undefined, NoSid, NoVersion)

\* JSON.parse(text)
JSONparse(text) ==
  CASE text.raw = "{not json" ->
         Thrown("Expected property name or '}' in JSON at position 1")
    [] text.raw = "" -> Thrown("Unexpected end of JSON input")
    [] text.raw = "null" -> Parsed("null", NoEnvelope)
    [] text.raw = "5" -> Parsed("number", NoMembers)
    [] text.raw = "[]" -> Parsed("array", NoMembers)
    [] text.raw = "{}" -> Parsed("object", NoMembers)
    [] text.raw = "envelope" -> Parsed("object", text.env)

\* app.use(bodyParser.json()): an empty body leaves req.body = {}; in its
\* strict mode a body that does not start an object or an array is refused
\* like one that is not JSON.
bodyParserJson(text) ==
  CASE text.raw = "" -> Parsed("object", NoMembers)
    [] text.raw \in {"null", "5"} -> Thrown("Unexpected token in JSON at position 0")
    [] OTHER -> JSONparse(text)

\* processRequest called with whatever the parser returned.  On null the
\* read of request.jsonrpc throws inside the try block, and the catch block
\* throws again on request.id: the returned promise rejects.
processValue(value, H, S, uuid, t) ==
  IF value.kind = "null"
    THEN Outcome(FALSE, Rejected("Cannot read properties of null (reading 'id')"),
                 "none", S, uuid)
    ELSE processRequest(value.env, H, S, uuid, t)

\* JSON.stringify(response): a member whose value is undefined is left out.
JSONstringify(response) ==
  [hasId |-> response.id # Undefined,
   id |-> IF response.id = Undefined THEN "-" ELSE response.id,
   isError |-> response.isError, code |-> response.code,
   message |-> response.message, result |-> response.result]

\* What a transport wrote back, and for which received message (msg, its
\* place in the inbox): a response envelope, or for HTTP the error page of
\* the framework.
Frame(msg, channel, status, response) ==
  [msg |-> msg, channel |-> channel, status |-> status, envelope |-> TRUE,
   body |-> JSONstringify(response)]
ErrorPage(msg, status) ==
  [msg |-> msg, channel |-> "http", status |-> status, envelope |-> FALSE,
   body |-> JSONstringify(NoResponse)]

\* The catch blocks of the three adapters.
wsCatch(message) ==
  Response("0", TRUE, CODE_WS_PARSE, Message("Parse error: ", message), NoValue)

stdioCatch(message) ==
  Response("0", TRUE, CODE_STDIO_PARSE, Message("Parse error: ", message), NoValue)

\* id: req.body.id || 0
httpCatch(body, message) ==
  Response(IF body.id = Undefined THEN "0" ELSE body.id, TRUE, CODE_HTTP_INTERNAL,
           Message("Internal error: ", message), NoValue)

\* The frame an adapter writes for message msg when processRequest settled.
Reply(msg, channel, body, settled) ==
  IF settled.resolved
    THEN Frame(msg, channel, IF channel = "http" THEN "200" ELSE "-", settled.resp)
    ELSE CASE channel = "ws" -> Frame(msg, channel, "-", wsCatch(settled.resp.message[1]))
           [] channel = "stdio" -> Frame(msg, channel, "-", stdioCatch(settled.resp.message[1]))
           [] channel = "http" ->
                Frame(msg, channel, "500", httpCatch(body, settled.resp.message[1]))

\* The request a handler invocation answers: the adapter's own local
\* variable, set from the message that started it.
RequestOf_Latest(box, msg) == box[Len(box)].text.env

RequestOf(box, msg) == box[msg].text.env

WireInit ==
  /\ inbox = << >>
  /\ awaiting = {}
  /\ outbox = << >>

\* A client sends a session id only after the server has issued it.
Deliverable(text) == text.raw = "envelope" => Sendable(text.env)

\* An adapter hands the parsed value to processRequest and, unless the call
\* awaits its handler, writes the response.
Hand(channel, text, value) ==
  LET msg == Len(inbox) + 1 IN
  /\ inbox' = Append(inbox, [channel |-> channel, text |-> text])
  /\ \E o \in {processValue(value, methodHandlers, sessions, nextUuid, now)} :
       /\ o.nextUuid <= MaxSessions + 1
       /\ sessions' = o.sessions
       /\ nextUuid' = o.nextUuid
       /\ IF o.pending
            THEN /\ awaiting' = awaiting \cup {msg}
                 /\ UNCHANGED outbox
            ELSE /\ outbox' = Append(outbox, Reply(msg, channel, value.env, o.settled))
                 /\ UNCHANGED awaiting

\* The parser threw: the adapter, or for HTTP the framework, answers.
Refuse(channel, text, frame) ==
  /\ inbox' = Append(inbox, [channel |-> channel, text |-> text])
  /\ outbox' = Append(outbox, frame)
  /\ UNCHANGED <<sessions, nextUuid, awaiting>>

\* ws.on('message'), server.ts 217-243.
WsMessage(text) ==
  /\ Len(inbox) < MaxMessages
  /\ Deliverable(text)
  /\ \E value \in {JSONparse(text)} :
       IF value.threw
         THEN Refuse("ws", text, Frame(Len(inbox) + 1, "ws", "-", wsCatch(value.message)))
         ELSE Hand("ws", text, value)
  /\ UNCHANGED <<methodHandlers, now, nextCleanup, inflight, swept, last>>
  /\ UNCHANGED <<authVars, wall, serviceVars, bootVars>>

\* rl.on('line'), server.ts 266-293.
StdioLine(text) ==
  /\ Len(inbox) < MaxMessages
  /\ Deliverable(text)
  /\ \E value \in {JSONparse(text)} :
       IF value.threw
         THEN Refuse("stdio", text,
                     Frame(Len(inbox) + 1, "stdio", "-", stdioCatch(value.message)))
         ELSE Hand("stdio", text, value)
  /\ UNCHANGED <<methodHandlers, now, nextCleanup, inflight, swept, last>>
  /\ UNCHANGED <<authVars, wall, serviceVars, bootVars>>

\* POST /mcp behind bodyParser.json(), server.ts 36 and 81-102.
HttpPost(text) ==
  /\ Len(inbox) < MaxMessages
  /\ Deliverable(text)
  /\ \E value \in {bodyParserJson(text)} :
       IF value.threw
         THEN Refuse("http", text, ErrorPage(Len(inbox) + 1, "400"))
         ELSE Hand("http", text, value)
  /\ UNCHANGED <<methodHandlers, now, nextCleanup, inflight, swept, last>>
  /\ UNCHANGED <<authVars, wall, serviceVars, bootVars>>

\* The handler a message's call awaits fulfils, and the adapter writes the
\* response.
AwaitedFulfils(msg) ==
  /\ msg \in awaiting
  /\ awaiting' = awaiting \ {msg}
  /\ outbox' = Append(outbox,
       Reply(msg, inbox[msg].channel, RequestOf(inbox, msg),
             Resolved(ResultResponse(RequestOf(inbox, msg).id,
                                     Value("content", 0, NoVersion)))))
  /\ UNCHANGED inbox
  /\ UNCHANGED <<coreVars, authVars, wall, serviceVars, bootVars>>

\* The handler a message's call awaits rejects.
AwaitedRejects(msg, failure) ==
  /\ msg \in awaiting
  /\ awaiting' = awaiting \ {msg}
  /\ outbox' = Append(outbox,
       Reply(msg, inbox[msg].channel, RequestOf(inbox, msg),
             catchBlock(RequestOf(inbox, msg), failure)))
  /\ UNCHANGED inbox
  /\ UNCHANGED <<coreVars, authVars, wall, serviceVars, bootVars>>

\* ------------------------------------------------ resources and tools
\* McpResources.listResources and McpTools (executeTool and the three
\* tools), called by processRequest as the handlers of mcp.resources.list
\* and mcp.tools.execute.

\* mcp.tools.execute calls that await the broker at one time.
MaxToolRuns == 1

\* One catalog entry; metadata is optional.
Resource(id, name, description, hasMetadata) ==
  [id |-> id, name |-> name, description |-> description, metadata |-> hasMetadata]

ResourceCatalog ==
  <<Resource("market-data", "Market Data",
             "Real-time market data for specified instruments", TRUE),
    Resource("historical-data", "Historical Data",
             "Historical OHLC candle data for a specific instrument and time range", TRUE),
    Resource("positions", "Positions", "Current positions in the portfolio", FALSE),
    Resource("holdings", "Holdings", "Current holdings in the portfolio", FALSE),
    Resource("orders", "Orders", "List of orders", FALSE),
    Resource("profile", "User Profile", "User profile information", FALSE),
    Resource("funds", "Funds and Balance",
             "User funds, margins, and available balance information", FALSE),
    Resource("instruments", "Instruments", "Available trading instruments", TRUE)>>

\* What a handler returned: nothing (no handler ran), the resource catalog,
\* or a tool result with either a result or an error member.
Body(kind, isError, code, message, entries) ==
  [kind |-> kind, isError |-> isError, code |-> code, message |-> message,
   entries |-> entries]
NoBody == Body("none", FALSE, "-", NoMessage, << >>)
ToolError(code, message) == Body("tool", TRUE, code, message, << >>)
ToolSuccess == Body("tool", FALSE, "-", Fixed("success"), << >>)

\* A catalog that lacks the orders entry.
listResources_WithoutOrders ==
  Body("catalog", FALSE, "-", NoMessage, SubSeq(ResourceCatalog, 1, 4))

\* listResources: return { resources }
listResources == Body("catalog", FALSE, "-", NoMessage, ResourceCatalog)

\* The tool parameters the handlers read; a member that is absent reads as
\* undefined.  "5", "1", "100" and "95" stand for numbers, the other values
\* for strings.
ToolParams(order_id, instrument_token, transaction_type, quantity, order_type, price, trigger_price) ==
  [order_id |-> order_id, instrument_token |-> instrument_token,
   transaction_type |-> transaction_type, quantity |-> quantity,
   order_type |-> order_type, price |-> price, trigger_price |-> trigger_price]

IsNumber(v) == v \in {"5", "1", "100", "95"}
IsString(v) == v # Undefined /\ ~IsNumber(v)

OrderLookups ==
  {ToolParams(o, Undefined, Undefined, Undefined, Undefined, Undefined, Undefined) :
     o \in {Undefined, "ord-1"}}

\* place-order parameters: every combination of present, absent and unlisted
\* values of the four required members without prices (an instrument_token
\* that is a number included), and an otherwise valid order of each order
\* type with each of price and trigger_price a number, absent, or (price) a
\* string.
OrderPlacements ==
  {ToolParams(Undefined, it, tt, q, ot, Undefined, Undefined) :
     it \in {Undefined, "INFY", "5"}, tt \in {Undefined, "BUY", "HOLD"},
     q \in {Undefined, "1"}, ot \in {Undefined, "MARKET", "STOP"}}
  \cup
  {ToolParams(Undefined, "INFY", "BUY", "1", ot, p, tp) :
     ot \in {"MARKET", "LIMIT", "SL", "SL-M"}, p \in {Undefined, "100", "cheap"},
     tp \in {Undefined, "95"}}

KnownTools == {"place-order", "cancel-order", "get-order"}

\* params of mcp.tools.execute without session_id: tool_id and the rest.
ToolArgs(tool_id, params) == [tool_id |-> tool_id, params |-> params]

ToolCalls ==
  {ToolArgs("place-order", p) : p \in OrderPlacements}
  \cup {ToolArgs(id, p) : id \in {"cancel-order", "get-order", "close-all", Undefined},
                          p \in OrderLookups}

\* No parameter is ever missing.
validateRequiredParams_Lenient(params, requiredParams) == NoMessage

\* validateRequiredParams: the message of the Error it throws, none if it
\* returns.
validateRequiredParams(params, requiredParams) ==
  LET missing == {i \in DOMAIN requiredParams : params[requiredParams[i]] = Undefined}
  IN IF missing = {} THEN NoMessage
     ELSE Message("Missing required parameter: ",
                  requiredParams[CHOOSE i \in missing : \A j \in missing : i <= j])

\* Only the presence of the required parameters is checked.
placeOrderChecks_PresenceOnly(params) ==
  validateRequiredParams(params, <<"instrument_token", "transaction_type", "quantity",
                                   "order_type">>)

\* placeOrder up to the broker call: the message of what is thrown on the
\* way, none if the broker is called.
placeOrderChecks(params) ==
  LET missing == validateRequiredParams(params, <<"instrument_token", "transaction_type",
                                                  "quantity", "order_type">>)
  IN IF missing # NoMessage THEN missing
     ELSE IF ~IsString(params.instrument_token)
       THEN Fixed("params.instrument_token.includes is not a function")
     ELSE IF params.transaction_type \notin {"BUY", "SELL"}
       THEN <<"Invalid transaction type: ", params.transaction_type, ". Must be BUY or SELL.">>
     ELSE IF params.order_type \notin {"MARKET", "LIMIT", "SL", "SL-M"}
       THEN <<"Invalid order type: ", params.order_type,
              ". Must be MARKET, LIMIT, SL, or SL-M.">>
     ELSE IF params.order_type \in {"LIMIT", "SL"} /\ ~IsNumber(params.price)
       THEN Fixed("Price is required for LIMIT and SL orders")
     ELSE IF params.order_type \in {"SL", "SL-M"} /\ ~IsNumber(params.trigger_price)
       THEN Fixed("Trigger price is required for SL and SL-M orders")
     ELSE NoMessage

\* How a tool call proceeds: what it throws before any broker call (none if
\* it calls the broker), the code its catch block reports with, and the
\* default message of the broker method it calls.
ToolPlan(thrown, code, defaultMessage) ==
  [thrown |-> thrown, code |-> code, defaultMessage |-> defaultMessage]

\* executeTool's switch and the tool it selects, up to the broker call.
executeTool(args) ==
  CASE args.tool_id = "place-order" ->
         ToolPlan(placeOrderChecks(args.params), "PLACE_ORDER_ERROR", "Failed to place order")
    [] args.tool_id = "cancel-order" ->
         ToolPlan(validateRequiredParams(args.params, <<"order_id">>), "CANCEL_ORDER_ERROR",
                  "Failed to cancel order")
    [] args.tool_id = "get-order" ->
         ToolPlan(validateRequiredParams(args.params, <<"order_id">>), "GET_ORDER_ERROR",
                  "Failed to fetch order details")
    [] OTHER ->
         ToolPlan(Message("Tool not found: ", args.tool_id), "TOOL_EXECUTION_ERROR", "-")

\* How the broker answers a tool's request: 2xx with a body that is not an
\* error, 2xx with status 'error' in the body, an error status, or not at all.
ToolBrokerFailures == BrokerStatuses \cup {"error-body"}

\* handleApiError, and handleResponse for an error body: the message of the
\* Error the broker method throws.
handleApiError(failure, defaultMessage) ==
  IF failure = "error-body" THEN <<defaultMessage, ": ", "Unknown API error">>
  ELSE IF failure # NoStatus
    THEN <<"API Error ", failure, ": ", "Request failed with status code ", failure>>
    ELSE <<defaultMessage, ": ", "Network Error">>

\* A tool call that awaits the broker.
ToolRun(request, args) == [request |-> request, args |-> args]

\* The latest call: the request, the tool arguments (none for a listing),
\* whether the session it named was valid when it arrived, what was called
\* as its handler, whether it still awaits the broker and, once it has
\* settled, the response envelope, what the handler returned and whether a
\* broker method was called.
NoArgs == ToolArgs("-", ToolParams(Undefined, Undefined, Undefined, Undefined, Undefined,
                                   Undefined, Undefined))
Served(request, args, valid, invoked, response, body, brokerCalled) ==
  [request |-> request, args |-> args, valid |-> valid, invoked |-> invoked,
   pending |-> FALSE, resp |-> response, body |-> body, brokerCalled |-> brokerCalled]
Awaiting(request, args) ==
  [request |-> request, args |-> args, valid |-> TRUE, invoked |-> "executeTool",
   pending |-> TRUE, resp |-> NoResponse, body |-> NoBody, brokerCalled |-> TRUE]
NothingServed == Served(NoEnvelope, NoArgs, FALSE, "none", NoResponse, NoBody, FALSE)

ToolsInit ==
  /\ toolRun = {}
  /\ served = NothingServed

ListRequests ==
  {Envelope("2.0", id, "mcp.resources.list", sid, NoVersion) :
     id \in RequestIds, sid \in {NoSid, 1}}

ToolRequests ==
  {Envelope("2.0", "7", "mcp.tools.execute", sid, NoVersion) : sid \in {NoSid, 1}}

\* mcp.session.start
OpenSession == Request(Envelope("2.0", "7", "mcp.session.start", NoSid, NoVersion))

\* mcp.resources.list: processRequest and, past the session checks,
\* listResources.
ListResources(request) ==
  /\ Sendable(request)
  /\ \E o \in {processRequest(request, methodHandlers, sessions, nextUuid, now)} :
       /\ sessions' = o.sessions
       /\ served' = Served(request, NoArgs,
                           validateSession(sessions, request.sid, now), o.invoked,
                           o.settled.resp,
                           IF o.invoked = "listResources" THEN listResources ELSE NoBody,
                           FALSE)
  /\ UNCHANGED <<nextUuid, methodHandlers, now, nextCleanup, inflight, swept, last>>
  /\ UNCHANGED <<authVars, wall, wireVars, toolRun, bootVars>>

\* mcp.tools.execute: processRequest and, past the session checks,
\* executeTool up to where it settles or awaits the broker.  The broker
\* client's request interceptor calls getAccessToken first and sends the
\* request only if that returns.
ExecuteTool(request, args) ==
  /\ Sendable(request)
  /\ Cardinality(toolRun) < MaxToolRuns
  /\ \E o \in {processRequest(request, methodHandlers, sessions, nextUuid, now)},
        plan \in {executeTool(args)},
        token \in {AccessTokenCall(config, authState, wall)} :
       LET valid == validateSession(sessions, request.sid, now)
           done(response, body, brokerCalled) ==
             served' = Served(request, args, valid, o.invoked,
                              response, body, brokerCalled)
           wrapped == ResultResponse(request.id, Value("toolresult", 0, NoVersion))
       IN
       /\ sessions' = o.sessions
       /\ IF ~o.pending THEN
            /\ done(o.settled.resp, NoBody, FALSE)
            /\ UNCHANGED <<toolRun, authState, lastAuth>>
          ELSE IF plan.thrown # NoMessage THEN
            /\ done(wrapped, ToolError(plan.code, plan.thrown), FALSE)
            /\ UNCHANGED <<toolRun, authState, lastAuth>>
          ELSE IF ~token.result.ok THEN
            /\ done(wrapped,
                    ToolError(plan.code, <<plan.defaultMessage, ": ">> \o token.result.value),
                    TRUE)
            /\ authState' = token.state
            /\ lastAuth' = token.result
            /\ UNCHANGED toolRun
          ELSE
            /\ toolRun' = toolRun \cup {ToolRun(request, args)}
            /\ served' = Awaiting(request, args)
            /\ authState' = token.state
            /\ lastAuth' = token.result
  /\ UNCHANGED <<nextUuid, methodHandlers, now, nextCleanup, inflight, swept, last>>
  /\ UNCHANGED <<config, exchanges, emitted, granted, brokerCalls>>
  /\ UNCHANGED <<wall, wireVars, bootVars>>

\* The broker answers a tool's request with success: the tool returns its
\* result member and processRequest wraps it.
ToolBrokerSucceeds(run) ==
  /\ run \in toolRun
  /\ toolRun' = toolRun \ {run}
  /\ served' = Served(run.request, run.args, TRUE, "executeTool",
                      ResultResponse(run.request.id, Value("toolresult", 0, NoVersion)),
                      ToolSuccess, TRUE)
  /\ UNCHANGED <<coreVars, authVars, wall, wireVars, bootVars>>

\* The broker's answer makes the broker method throw: the response
\* interceptor logs out on a 401, and the tool's catch block returns an
\* error member with the message.
ToolBrokerFails(run, failure) ==
  /\ run \in toolRun
  /\ toolRun' = toolRun \ {run}
  /\ \E plan \in {executeTool(run.args)} :
       served' = Served(run.request, run.args, TRUE, "executeTool",
                        ResultResponse(run.request.id, Value("toolresult", 0, NoVersion)),
                        ToolError(plan.code, handleApiError(failure, plan.defaultMessage)),
                        TRUE)
  /\ IF ForcesLogout(failure) THEN logout ELSE UNCHANGED <<authState, emitted>>
  /\ UNCHANGED <<config, exchanges, lastAuth, granted, brokerCalls>>
  /\ UNCHANGED <<coreVars, wall, wireVars, bootVars>>

\* ------------------------------------------------- the configuration
\* config.ts: loadConfig and validateConfig run once, when the module is
\* first imported; getCredentials is what the auth manager reads.

\* process.env: the variables config.ts reads, "" for one that is not set.
\* A credential variable is unset or has a value of its own.
Environments ==
  [UPSTOX_ENVIRONMENT : {"", "live", "sandbox", "LIVE"},
   UPSTOX_AUTH_METHOD : {"", "access_token", "api_key_secret"},
   PORT : {"", "abc"},
   API_KEY : {"", "your_live_api_key"},
   API_SECRET : {"", "your_live_api_secret"},
   ACCESS_TOKEN : {"", "your_live_access_token"},
   LIVE_API_KEY : {"", "live_api_key"},
   LIVE_API_SECRET : {"", "live_api_secret"},
   LIVE_ACCESS_TOKEN : {"", "live_access_token"},
   SANDBOX_API_KEY : {"", "your_sandbox_api_key"},
   SANDBOX_API_SECRET : {"", "your_sandbox_api_secret"},
   SANDBOX_ACCESS_TOKEN : {"", "your_sandbox_access_token"}]

NoEnvironment ==
  [UPSTOX_ENVIRONMENT |-> "", UPSTOX_AUTH_METHOD |-> "", PORT |-> "", API_KEY |-> "",
   API_SECRET |-> "", ACCESS_TOKEN |-> "", LIVE_API_KEY |-> "", LIVE_API_SECRET |-> "",
   LIVE_ACCESS_TOKEN |-> "", SANDBOX_API_KEY |-> "", SANDBOX_API_SECRET |-> "",
   SANDBOX_ACCESS_TOKEN |-> ""]

\* String.prototype.toLowerCase on the values above.
toLowerCase(text) == IF text = "LIVE" THEN "live" ELSE text

\* value || fallback
OrElse(value, fallback) == IF value = "" THEN fallback ELSE value

Credentials(apiKey, apiSecret, accessToken) ==
  [apiKey |-> apiKey, apiSecret |-> apiSecret, accessToken |-> accessToken]
NoCredentials == Credentials("", "", "")

\* What loadConfig returns or throws.
Loaded(upstox, port) == [threw |-> FALSE, message |-> NoMessage, upstox |-> upstox, port |-> port]

\* getEnvVariable(name, required) throws for the first required variable
\* that is not set, in the order loadConfig reads them: key, secret, token.
loadConfig(env) ==
  LET environment ==
        IF toLowerCase(OrElse(env.UPSTOX_ENVIRONMENT, "sandbox")) = "live"
          THEN "live" ELSE "sandbox"
      authMethod ==
        IF toLowerCase(OrElse(env.UPSTOX_AUTH_METHOD, "access_token")) = "api_key_secret"
          THEN "api_key_secret" ELSE "access_token"
      useSandbox == environment = "sandbox"
      keyName == IF useSandbox THEN "SANDBOX_API_KEY" ELSE "API_KEY"
      secretName == IF useSandbox THEN "SANDBOX_API_SECRET" ELSE "API_SECRET"
      tokenName == IF useSandbox THEN "SANDBOX_ACCESS_TOKEN" ELSE "ACCESS_TOKEN"
      required == <<keyName>> \o (IF authMethod = "api_key_secret" THEN <<secretName>>
                                  ELSE << >>)
                              \o (IF authMethod = "access_token" THEN <<tokenName>>
                                  ELSE << >>)
      unset == {i \in DOMAIN required : env[required[i]] = ""}
      upstox ==
        [environment |-> environment, authMethod |-> authMethod, useSandbox |-> useSandbox,
         apiKey |-> env[keyName], apiSecret |-> env[secretName],
         accessToken |-> env[tokenName],
         liveApiKey |-> env.LIVE_API_KEY, liveApiSecret |-> env.LIVE_API_SECRET,
         liveAccessToken |-> env.LIVE_ACCESS_TOKEN,
         sandboxApiKey |-> env.SANDBOX_API_KEY, sandboxApiSecret |-> env.SANDBOX_API_SECRET,
         sandboxAccessToken |-> env.SANDBOX_ACCESS_TOKEN]
  IN IF unset # {}
       THEN [threw |-> TRUE,
             message |-> <<"Environment variable ",
                           required[CHOOSE i \in unset : \A j \in unset : i <= j],
                           " is required but not set.">>,
             upstox |-> upstox, port |-> "NaN"]
       ELSE Loaded(upstox, IF OrElse(env.PORT, "3000") = "3000" THEN "3000" ELSE "NaN")

\* getCredentials with its three members; getCredentials above is its
\* accessToken member, which is all the auth state machine reads.
activeCredentials(upstox) ==
  IF upstox.environment = "live"
    THEN Credentials(upstox.liveApiKey, upstox.liveApiSecret, upstox.liveAccessToken)
  ELSE IF upstox.environment = "sandbox"
    THEN Credentials(upstox.sandboxApiKey, upstox.sandboxApiSecret,
                     upstox.sandboxAccessToken)
  ELSE NoCredentials

\* validateConfig: the message of the Error it throws, none if it returns.
validateConfig(loaded) ==
  LET credentials == activeCredentials(loaded.upstox) IN
  IF credentials.apiKey = "" THEN Fixed("API key is required")
  ELSE IF loaded.upstox.authMethod = "api_key_secret" /\ credentials.apiSecret = ""
    THEN Fixed("API secret is required when using API key + secret authentication method")
  ELSE IF loaded.upstox.authMethod = "access_token" /\ credentials.accessToken = ""
    THEN Fixed("Access token is required when using token-based authentication method")
  ELSE IF loaded.port = "NaN" THEN Fixed("Invalid server port number")
  ELSE NoMessage

\* How the import of config.ts ended: it threw, or it exported a
\* configuration with these active credentials.
Started(ok, message, environment, credentials) ==
  [done |-> TRUE, ok |-> ok, message |-> message, environment |-> environment,
   credentials |-> credentials]
NotStarted ==
  [done |-> FALSE, ok |-> FALSE, message |-> NoMessage, environment |-> "",
   credentials |-> NoCredentials]

\* const config = loadConfig(); validateConfig(config);
LoadAndValidate(env) ==
  LET loaded == loadConfig(env) IN
  IF loaded.threw THEN Started(FALSE, loaded.message, "", NoCredentials)
  ELSE IF validateConfig(loaded) # NoMessage
    THEN Started(FALSE, validateConfig(loaded), "", NoCredentials)
  ELSE Started(TRUE, NoMessage, loaded.upstox.environment, activeCredentials(loaded.upstox))

\* Elsewhere the configuration is taken as loaded and process.env is not
\* looked at.
BootIdle ==
  /\ environ = NoEnvironment
  /\ startup = NotStarted

\* The module is imported.
Startup ==
  /\ ~startup.done
  /\ startup' = LoadAndValidate(environ)
  /\ UNCHANGED environ
  /\ UNCHANGED <<coreVars, authVars, wall, wireVars, serviceVars>>

EdgeInit == WireInit /\ ToolsInit /\ BootIdle

\* -------------------------------------------------- specifications

\* The dispatcher and the registry, with the auth manager as constructed
\* for the OAuth method and left alone.
Init ==
  /\ CoreInit
  /\ AuthInitAt(Config("live", "api_key_secret", "", ""), 0)
  /\ EdgeInit

Next ==
  \/ \E request \in Requests : Request(request)
  \/ \E request \in Requests : HandlerFulfils(request)
  \/ \E request \in Requests, failure \in HandlerFailures : HandlerRejects(request, failure)
  \/ CleanupTimer
  \/ Tick

Spec == Init /\ [][Next]_vars

\* The auth manager under every accepted configuration, started at any of
\* the times of day, with the dispatcher left alone.
AuthInit ==
  /\ CoreInit
  /\ \E c \in Configurations, t \in TimesOfDay : AuthInitAt(c, t)
  /\ EdgeInit

AuthNext ==
  \/ getAccessToken
  \/ \E authCode \in AuthCodes : ExchangeStarts(authCode)
  \/ \E authCode \in AuthCodes, token \in UpstreamTokens : ExchangeSucceeds(authCode, token)
  \/ \E authCode \in AuthCodes, failure \in ExchangeFailures : ExchangeFails(authCode, failure)
  \/ \E token \in NotifiedTokens :
       setToken(token, IF config.environment = "sandbox" THEN 30 ELSE 1)
  \/ BrokerCallStarts
  \/ BrokerCallSucceeds
  \/ \E status \in BrokerStatuses : BrokerCallFails(status)
  \/ AuthTick
  \/ AuthJump

AuthSpec == AuthInit /\ [][AuthNext]_vars

\* The three transports in front of the dispatcher, with the auth manager
\* as constructed for the OAuth method and left alone.
TransportNext ==
  \/ \E text \in WireTexts : WsMessage(text)
  \/ \E text \in WireTexts : StdioLine(text)
  \/ \E text \in WireTexts : HttpPost(text)
  \/ \E msg \in 1..MaxMessages : AwaitedFulfils(msg)
  \/ \E msg \in 1..MaxMessages, failure \in HandlerFailures : AwaitedRejects(msg, failure)

TransportSpec == Init /\ [][TransportNext]_vars

\* Resource listing and tool execution behind the dispatcher, with the auth
\* manager under every accepted configuration of the live environment.
ServiceInit ==
  /\ CoreInit
  /\ \E c \in {k \in Configurations : k.environment = "live"} : AuthInitAt(c, 0)
  /\ EdgeInit

ServiceNext ==
  \/ OpenSession
  \/ \E request \in ListRequests : ListResources(request)
  \/ \E request \in ToolRequests, args \in ToolCalls : ExecuteTool(request, args)
  \/ \E request \in ToolRequests, args \in ToolCalls :
       ToolBrokerSucceeds(ToolRun(request, args))
  \/ \E request \in ToolRequests, args \in ToolCalls, failure \in ToolBrokerFailures :
       ToolBrokerFails(ToolRun(request, args), failure)

ServiceSpec == ServiceInit /\ [][ServiceNext]_vars

\* The import of config.ts under every environment of the process.
BootInit ==
  /\ CoreInit
  /\ AuthInitAt(Config("live", "api_key_secret", "", ""), 0)
  /\ WireInit
  /\ ToolsInit
  /\ environ \in Environments
  /\ startup = NotStarted

BootNext == Startup

BootSpec == BootInit /\ [][BootNext]_vars

\* The registry under the cleanup timer over a longer time: sessions are
\* started, used by a handler that settles at once and ended, with the auth
\* manager as constructed for the OAuth method and left alone.
MaxSweepGrains == 4

SweepRequests ==
  {Envelope("2.0", "7", m, sid, NoVersion) :
     m \in {"mcp.session.start", "mcp.resources.list", "mcp.session.end"},
     sid \in {NoSid} \cup IssuedIds}

\* Time passes: to the first millisecond after a multiple of the cleanup
\* interval, to the last one before the next multiple, and to the multiple.
Elapse ==
  /\ now < MaxSweepGrains * ClockGrain
  /\ now < nextCleanup
  /\ now' = IF now % ClockGrain = 1 THEN now + ClockGrain - 2 ELSE now + 1
  /\ UNCHANGED <<sessions, nextUuid, methodHandlers, nextCleanup, inflight, swept, last>>
  /\ UNCHANGED <<authVars, wall, edgeVars>>

SweepNext ==
  \/ \E request \in SweepRequests : Request(request)
  \/ CleanupTimer
  \/ Elapse

SweepSpec == Init /\ [][SweepNext]_vars

\* The method registry under registrations made while requests are served,
\* with the auth manager as constructed for the OAuth method and left alone.
\* registerMethod's parameter type admits the keys of McpMethodHandlers only:
\* here a method that is exempt, one that requires a session, and one that
\* nothing registers at startup.
RegistrableMethods == {"mcp.discover", "mcp.resources.list", "mcp.prompts.list"}
RegistrableHandlers == {"discoverClosure", "listResources", "listTools"}

\* this.methodHandlers[method] = handler, an own data property written.
registerMethod_FirstWins(H, method, handler) ==
  IF method \in DOMAIN H THEN H ELSE MapSet(H, method, handler)

registerMethod(H, method, handler) == MapSet(H, method, handler)

RegisterMethod(method, handler) ==
  /\ methodHandlers' = registerMethod(methodHandlers, method, handler)
  /\ UNCHANGED <<sessions, nextUuid, now, nextCleanup, inflight, swept, last>>
  /\ UNCHANGED <<authVars, wall, edgeVars>>

DispatchRequests ==
  {Envelope("2.0", "7", m, sid, NoVersion) :
     m \in RegistrableMethods \cup {"mcp.session.start"}, sid \in {NoSid, 1}}

RegistryNext ==
  \/ \E method \in RegistrableMethods, handler \in RegistrableHandlers :
       RegisterMethod(method, handler)
  \/ \E request \in DispatchRequests : Request(request)

RegistrySpec == Init /\ [][RegistryNext]_vars

\* ------------------------------------------------------------ claims

ONE_HOUR == 60 * 60 * 1000

\* What processRequest does with a request in the current state.
Out(request) == processRequest(request, methodHandlers, sessions, nextUuid, now)

\* The '2.0' requests a client can send in the current state.
Valid20 == {r \in Requests : r.jsonrpc = "2.0" /\ Sendable(r)}

\* The '2.0' requests for a registered method that requires a session.
SessionRequired == {r \in Valid20 : r.method \in DOMAIN methodHandlers \ ExemptMethods}

\* The request carries no session_id, or one that is absent from the
\* registry (never issued, ended, swept), or one idle for an hour or more.
BadSession(r) ==
  \/ r.sid = NoSid
  \/ r.sid \notin DOMAIN sessions
  \/ now - sessions[r.sid].lastAccessedAt >= ONE_HOUR

Contains(message, text) == \E i \in DOMAIN message : message[i] = text

\* C1: every '2.0' request is answered with a response that carries exactly
\* the request's id: when the call settles at once (an error of any kind, or
\* a handler that returns or throws in the same run), and when an awaited
\* handler later fulfils or rejects.
C1_ResponseEchoesId ==
  /\ \A r \in Valid20 :
       LET o == Out(r) IN ~o.pending => o.settled.resolved /\ o.settled.resp.id = r.id
  /\ \A r \in inflight :
       \A f \in HandlerFailures :
         catchBlock(r, f).resolved /\ catchBlock(r, f).resp.id = r.id
  /\ last.resolved
  /\ last.resp.id \in RequestIds \cup {NoResponse.id}

\* A failed handler's response was sent with the id of its request.
C1_Witness ==
  /\ last.invoked = "getResource"
  /\ last.resp.isError
  /\ last.resp.id = "req-a"

\* C2: a request for a registered session-required method whose session_id
\* is missing, absent from the registry or idle for at least an hour is
\* answered with a session error; no handler is called for it and the
\* registry is left exactly as it was.
C2_BadSessionRejectedUntouched ==
  \A r \in SessionRequired :
    BadSession(r) =>
      LET o == Out(r) IN
      /\ ~o.pending
      /\ o.settled.resolved
      /\ o.settled.resp.isError
      /\ o.settled.resp.message \in
           {Fixed("Session ID is required"), Fixed("Invalid or expired session")}
      /\ o.invoked = "none"
      /\ o.sessions = sessions
      /\ o.nextUuid = nextUuid

\* A request was rejected while the registry still held an expired session.
C2_Witness ==
  /\ last.resp.message = Fixed("Invalid or expired session")
  /\ last.invoked = "none"
  /\ \E sid \in DOMAIN sessions : now - sessions[sid].lastAccessedAt >= ONE_HOUR

End(id, sid) == Envelope("2.0", id, "mcp.session.end", sid, NoVersion)

\* The first and the second of two mcp.session.end calls for session sid.
FirstEnd(id, sid) == Out(End(id, sid))
SecondEnd(id, sid) ==
  LET a == FirstEnd(id, sid)
  IN processRequest(End(id, sid), methodHandlers, a.sessions, a.nextUuid, now)

LiveSessions == {sid \in DOMAIN sessions : now - sessions[sid].lastAccessedAt < ONE_HOUR}

\* C3 (as claimed): mcp.session.end sent twice for the same session returns
\* no error either time, and the second call leaves the registry as the
\* first left it.
C3_DoubleEndNoError ==
  \A sid \in LiveSessions, id \in RequestIds :
    /\ ~FirstEnd(id, sid).settled.resp.isError
    /\ ~SecondEnd(id, sid).settled.resp.isError
    /\ SecondEnd(id, sid).sessions = FirstEnd(id, sid).sessions

\* C3 (amended): of two mcp.session.end calls for the same live session the
\* first succeeds and removes that session and no other; the second is
\* rejected with 'Invalid or expired session', calls no handler, and leaves
\* the registry as the first left it.
C3_SecondEndRejected ==
  \A sid \in LiveSessions, id \in RequestIds :
    LET a == FirstEnd(id, sid)
        b == SecondEnd(id, sid)
    IN /\ ~a.settled.resp.isError
       /\ DOMAIN a.sessions = DOMAIN sessions \ {sid}
       /\ \A other \in DOMAIN a.sessions : a.sessions[other] = sessions[other]
       /\ b.settled.resp.isError
       /\ b.settled.resp.code = CODE_INVALID_SESSION
       /\ b.settled.resp.message = Fixed("Invalid or expired session")
       /\ b.invoked = "none"
       /\ b.sessions = a.sessions

\* A session was ended through the dispatcher (it is gone and no sweep took
\* it), and a later request was rejected for its session.
C3_Witness ==
  /\ \E sid \in 1..(nextUuid - 1) : sid \notin DOMAIN sessions /\ sid \notin swept
  /\ last.resp.isError
  /\ last.resp.code = CODE_INVALID_SESSION
  /\ last.resp.message = Fixed("Invalid or expired session")
  /\ swept = {}

\* C4 (as claimed): a '2.0' request whose method name was never registered is
\* answered with the method-not-found code and a message that contains the
\* name, and nothing is called as its handler.
C4_UnregisteredIsNotFound ==
  \A r \in Valid20 :
    r.method \notin DOMAIN methodHandlers =>
      LET o == Out(r) IN
      /\ o.settled.resp.isError
      /\ o.settled.resp.code = CODE_METHOD_NOT_FOUND
      /\ Contains(o.settled.resp.message, r.method)
      /\ o.invoked = "none"

\* C5: processRequest always resolves with a response envelope, whatever the
\* request and whatever its handler does; a handler that fails (a rejected
\* promise, or a throw in the call itself) is answered with the dispatcher's
\* internal-error code and a message that contains the failure's message.
C5_NeverFailsOutward ==
  /\ last.resolved
  /\ last.resp.jsonrpc \in {"2.0", NoResponse.jsonrpc}
  /\ \A r \in {q \in Requests : Sendable(q)} :
       LET o == Out(r) IN
       /\ ~o.pending => o.settled.resolved /\ o.settled.resp.jsonrpc = "2.0"
       /\ (/\ r.jsonrpc = "2.0"
           /\ ~Callable(LookupHandler(methodHandlers, r.method))
           /\ LookupHandler(methodHandlers, r.method) # Undefined
           /\ ~BadSession(r))
          => /\ o.settled.resp.isError
             /\ o.settled.resp.code = CODE_CORE_INTERNAL
             /\ Contains(o.settled.resp.message, "handler is not a function")
  /\ \A r \in inflight, f \in HandlerFailures :
       LET c == catchBlock(r, f) IN
       /\ c.resolved
       /\ c.resp.jsonrpc = "2.0"
       /\ c.resp.isError
       /\ c.resp.code = CODE_CORE_INTERNAL
       /\ Contains(c.resp.message, f)

\* An awaited handler rejected and the call resolved with the internal error
\* that names the failure.
C5_Witness ==
  /\ last.invoked = "getResource"
  /\ last.resolved
  /\ last.resp.code = CODE_CORE_INTERNAL
  /\ last.resp.message = Message("Internal error: ", "Request failed with status code 500")

\* The codes each failure kind is reported with, by the dispatcher and by
\* the transport adapters.
FailureKinds ==
  {"invalid-envelope", "method-not-found", "missing-or-invalid-session",
   "internal-error", "parse-error"}

CodesOf(kind) ==
  CASE kind = "invalid-envelope" -> {CODE_INVALID_REQUEST}
    [] kind = "method-not-found" -> {CODE_METHOD_NOT_FOUND}
    [] kind = "missing-or-invalid-session" -> {CODE_SESSION_REQUIRED, CODE_INVALID_SESSION}
    [] kind = "internal-error" -> {CODE_CORE_INTERNAL, CODE_HTTP_INTERNAL}
    [] kind = "parse-error" -> {CODE_WS_PARSE, CODE_STDIO_PARSE}

\* C6 (as claimed): the error codes are negative integers, distinct between
\* failure kinds, so that the code of every error response identifies
\* exactly one failure kind.
C6_CodeIdentifiesOneKind ==
  last.resp.isError =>
    /\ last.resp.code < 0
    /\ Cardinality({k \in FailureKinds : last.resp.code \in CodesOf(k)}) = 1

C8_ValidateIsThreshold ==
  /\ \A sid \in IssuedIds \cup {UnknownSid} :
       validateSession(sessions, sid, now)
         <=> (sid \in DOMAIN sessions /\ now - sessions[sid].lastAccessedAt < ONE_HOUR)
  /\ \A r \in SessionRequired :
       (r.sid # NoSid /\ ~validateSession(sessions, r.sid, now)) => Out(r).sessions = sessions

\* A stored session idle for exactly one hour was refused.
C8_Witness ==
  /\ \E sid \in DOMAIN sessions : now - sessions[sid].lastAccessedAt = ONE_HOUR
  /\ last.resp.isError
  /\ last.resp.message = Fixed("Invalid or expired session")

\* C9: a sweep removes exactly the sessions idle for at least one hour at
\* that instant and leaves every other session stored with all its fields
\* unchanged; a session validateSession accepts at an instant is not removed
\* by a sweep at that instant; no swept id is stored afterwards.
C9_SweepRemovesExactlyExpired ==
  LET after == cleanupSessions(sessions, now) IN
  /\ DOMAIN after = {sid \in DOMAIN sessions : now - sessions[sid].lastAccessedAt < ONE_HOUR}
  /\ \A sid \in DOMAIN after : after[sid] = sessions[sid]
  /\ \A sid \in DOMAIN sessions : validateSession(sessions, sid, now) => sid \in DOMAIN after
  /\ swept \cap DOMAIN sessions = {}

\* A sweep has just run: it removed a session and kept another.
C9_Witness ==
  /\ swept # {}
  /\ DOMAIN sessions # {}
  /\ now > 0
  /\ nextCleanup = now + SESSION_CLEANUP_INTERVAL

\* C10: a failed exchangeCode (no response, an error status, a response
\* without access_token) writes nothing to the auth state and emits no
\* event, and the call throws an error, whose message carries the upstream
\* message when the upstream gave one.
C10_FailedExchangeLeavesState ==
  [][\A authCode \in AuthCodes, failure \in ExchangeFailures :
       ExchangeFails(authCode, failure) =>
         /\ authState' = authState
         /\ emitted' = emitted
         /\ ~lastAuth'.ok
         /\ lastAuth'.op = "authenticateWithCode"
         /\ lastAuth'.value # NoMessage
         /\ failure.upstream # "" => Contains(lastAuth'.value, failure.upstream)]_vars

\* An exchange failed with the upstream's message while a token obtained by
\* an earlier exchange was held, and that token is still held.
C10_Witness ==
  /\ lastAuth = Threw("authenticateWithCode",
                      Message("Authentication failed: ", "Invalid Auth code"))
  /\ authState.accessToken \in UpstreamTokens
  /\ authState.isAuthorized

\* ------------------------------------------- claims on the auth state

DirectToken == config.authMethod = "access_token"
OAuth == config.authMethod = "api_key_secret"

\* What getAccessToken does when called in the current state.
Call == AccessTokenCall(config, authState, wall)

\* The state holds no token that is still good at instant t.
Unusable(st, t) ==
  \/ st.accessToken = NoToken
  \/ st.tokenExpiry = NoExpiry
  \/ st.tokenExpiry <= t

THIRTY_DAYS == 30 * DAY

\* C11 (as claimed): with a sandbox direct-token configuration, the expiry
\* stored for the token accessToken() returns is at least 30 days after the
\* instant it was computed at: by the constructor at startup, and by
\* accessToken() when it installs the configured token again.
C11_SandboxExpiryThirtyDays ==
  (DirectToken /\ config.environment = "sandbox") =>
    /\ initializeFromConfig(config, wall).tokenExpiry >= wall + THIRTY_DAYS
    /\ (Unusable(authState, wall) /\ Call.result.ok)
         => Call.state.tokenExpiry >= wall + THIRTY_DAYS

\* The earliest instant with time of day 03:30 that is later than t.
NextCutover(t) ==
  IF t % DAY < CUTOVER THEN StartOfDay(t) + CUTOVER ELSE StartOfDay(t) + DAY + CUTOVER

\* C12 (as claimed): with a live direct-token configuration, the expiry
\* stored for the configured token is the next 03:30 strictly after the
\* instant of computation, at startup and when accessToken() installs the
\* configured token again, whatever the time of day.
C12_LiveExpiryIsNextCutover ==
  (DirectToken /\ config.environment = "live") =>
    /\ initializeFromConfig(config, wall).tokenExpiry = NextCutover(wall)
    /\ (Unusable(authState, wall) /\ Call.result.ok)
         => Call.state.tokenExpiry = NextCutover(wall)

\* The algorithm as stated: now + 1 day at 03:30, one more day if that is
\* not in the future, and 30 days more for sandbox.
StatedExpiry(t, environment) ==
  LET next == AtCutover(t, 1)
      future == IF next <= t THEN next + DAY ELSE next
  IN IF environment = "sandbox" THEN future + THIRTY_DAYS ELSE future

\* C13 (as claimed): at the same instant and for the same environment,
\* initialization from configuration, accessToken()'s fallback to the
\* configured token and a successful exchangeCode all store the expiry the
\* stated algorithm gives.
C13_OneExpiryAlgorithm ==
  LET expected == StatedExpiry(wall, config.environment) IN
  /\ ConfigExpiry(wall, config.environment) = expected
  /\ FallbackExpiry(wall, config.environment) = expected
  /\ \A token \in UpstreamTokens :
       authenticateWithCode_Succeeded(authState, wall, token).tokenExpiry = expected

\* C14 (as claimed): after an accessToken() call, successful or failed,
\* is_authorized is true exactly when access_token is non-null and
\* token_expiry is later than the time of the call.
C14_AuthorizedIffUsable ==
  Call.state.isAuthorized <=> ~Unusable(Call.state, wall)

\* C15 (as claimed): in the OAuth method accessToken() returns a token only
\* when the stored token is non-null and unexpired; otherwise it fails with
\* NotAuthenticated if no authorization ever succeeded in this process, and
\* with TokenExpired if one succeeded earlier and its token has lapsed.
C15_NeverVersusLapsed ==
  OAuth =>
    /\ Call.result.ok => ~Unusable(authState, wall)
    /\ (~Call.result.ok /\ granted = NoExpiry) => Call.result.value = NOT_AUTHENTICATED
    /\ (~Call.result.ok /\ granted # NoExpiry /\ granted <= wall)
         => Call.result.value = TOKEN_EXPIRED

\* C15 (amended): in the OAuth method accessToken() returns the stored token
\* exactly when it is non-null and unexpired, and changes nothing; otherwise
\* it fails with NotAuthenticated when is_authorized is false (no
\* authorization ever succeeded, or a logout cleared the state since) and
\* with TokenExpired when is_authorized is true.
C15_FlagDecidesFailure ==
  OAuth =>
    /\ Call.result.ok <=> ~Unusable(authState, wall)
    /\ Call.state = authState
    /\ Call.result.ok => Call.result.value = Fixed(authState.accessToken)
    /\ (~Call.result.ok /\ ~authState.isAuthorized) => Call.result.value = NOT_AUTHENTICATED
    /\ (~Call.result.ok /\ authState.isAuthorized) => Call.result.value = TOKEN_EXPIRED
    /\ granted = NoExpiry => ~authState.isAuthorized

\* accessToken() failed with NotAuthenticated after an authorization had
\* succeeded: a logout cleared the state in between.
C15_Witness ==
  /\ OAuth
  /\ lastAuth = Threw("getAccessToken", NOT_AUTHENTICATED)
  /\ granted # NoExpiry
  /\ authState = Unauthenticated

\* C16: in the OAuth method, while the state holds no unexpired token every
\* accessToken() call fails, and the only steps after which the state holds
\* a usable token again are a successful exchangeCode and a setToken.
C16_ExpiryIsTerminal ==
  [][(OAuth /\ Unusable(authState, wall)) =>
       /\ ~Call.result.ok
       /\ ~Unusable(authState', wall') =>
            /\ lastAuth'.ok
            /\ lastAuth'.op \in {"authenticateWithCode", "setToken"}
            /\ lastAuth'.value = Fixed(authState'.accessToken)]_vars

\* accessToken() failed with TokenExpired on a token whose expiry has passed.
C16_Witness ==
  /\ OAuth
  /\ lastAuth = Threw("getAccessToken", TOKEN_EXPIRED)
  /\ authState.accessToken # NoToken
  /\ authState.tokenExpiry <= wall

\* C17: in the direct-token method with a token in the configuration,
\* accessToken() succeeds in every reachable state and the state then holds
\* the returned token, unexpired; it fails only when no token is configured
\* and the state holds no unexpired token.
C17_DirectTokenAlwaysSucceeds ==
  DirectToken =>
    /\ getCredentials(config).accessToken # "" =>
         /\ Call.result.ok
         /\ Call.result.value = Fixed(Call.state.accessToken)
         /\ ~Unusable(Call.state, wall)
    /\ ~Call.result.ok =>
         getCredentials(config).accessToken = "" /\ Unusable(authState, wall)
    /\ lastAuth.op = "getAccessToken" => lastAuth.ok

\* accessToken() returned the configured token after a logout had cleared
\* the state.
C17_Witness ==
  /\ DirectToken
  /\ lastAuth = Returned("getAccessToken", Fixed(ConfiguredToken))
  /\ emitted = [parity |-> 1, payload |-> Unauthenticated]
  /\ authState.accessToken = ConfiguredToken
  /\ authState.isAuthorized

\* C18 (as claimed): every step that changes the token, expiry or authorized
\* flag emits an auth_change event that carries the new state.
C18_EveryMutationEmits ==
  [][authState' # authState =>
       emitted' # emitted /\ emitted'.payload = authState']_vars

\* C19: when a broker request fails, the call fails to its caller; on an
\* upstream 401 the auth state becomes {null, null, false} (and the event
\* carries it), and on any other status, or no response, the auth state is
\* left unchanged.
C19_Unauthorized401LogsOut ==
  [][\A status \in BrokerStatuses :
       BrokerCallFails(status) =>
         /\ ~lastAuth'.ok
         /\ lastAuth'.op = "broker.request"
         /\ IF status = "401"
              THEN /\ authState' = [accessToken |-> NoToken, tokenExpiry |-> NoExpiry,
                                    isAuthorized |-> FALSE]
                   /\ emitted'.payload = authState'
              ELSE authState' = authState /\ emitted' = emitted]_vars

\* A broker request sent with a granted token was answered 401: the call
\* failed and the state is cleared.
C19_Witness ==
  /\ lastAuth = Threw("broker.request", BrokerErrorMessage("401"))
  /\ authState = Unauthenticated
  /\ emitted.payload = Unauthenticated
  /\ granted # NoExpiry

\* --------------------------------------- claims on session creation

Creating == {r \in Valid20 : r.method \in {"mcp.session.start", "initialize"}}

List(id, sid) == Envelope("2.0", id, "mcp.resources.list", sid, NoVersion)

\* C20: each mcp.session.start and each initialize adds exactly one session,
\* under an id never issued before, with created_at = last_accessed_at =
\* now, accepted at once by a session-required method; every session
\* already stored is left as it was, whatever session_id the request itself
\* carries; the response carries the new id, and for initialize the
\* capabilities descriptor and the protocol version received.
C20_CreatesOneFreshSession ==
  nextUuid <= MaxSessions =>
    \A r \in Creating :
      LET o == Out(r)
          id == o.settled.resp.result.session_id
      IN /\ ~o.pending
         /\ ~o.settled.resp.isError
         /\ id \notin 1..(nextUuid - 1)
         /\ id \notin DOMAIN sessions \cup swept
         /\ DOMAIN o.sessions = DOMAIN sessions \cup {id}
         /\ \A k \in DOMAIN sessions : o.sessions[k] = sessions[k]
         /\ o.sessions[id].id = id
         /\ o.sessions[id].createdAt = now
         /\ o.sessions[id].lastAccessedAt = now
         /\ LET next == processRequest(List(r.id, id), methodHandlers, o.sessions,
                                       o.nextUuid, now)
            IN ~next.settled.resp.isError /\ next.invoked = "listResources"
         /\ r.method = "initialize" =>
              /\ o.settled.resp.result.tag = "initialized"
              /\ o.settled.resp.result.protocol_version = r.pv

\* A handshake created a second session beside the one that existed.
C20_Witness ==
  /\ last.invoked = "handleClientInitialize"
  /\ last.resp.result.session_id = 2
  /\ DOMAIN sessions = {1, 2}
  /\ sessions[2].createdAt = now
  /\ sessions[1].lastAccessedAt < now

\* The requests a client can send in the current state, whatever their tag.
SendableRequests == {r \in Requests : Sendable(r)}

\* C29, first part: a request whose protocol tag is not '2.0' is answered
\* with the invalid-request code whatever its method and session: nothing is
\* called as its handler and the registry (every last-access time included)
\* is left as it was.
C29_TagCheckedFirst ==
  \A r \in SendableRequests :
    r.jsonrpc # "2.0" =>
      LET o == Out(r) IN
      /\ ~o.pending
      /\ o.settled.resp.isError
      /\ o.settled.resp.code = CODE_INVALID_REQUEST
      /\ o.invoked = "none"
      /\ o.sessions = sessions
      /\ o.nextUuid = nextUuid

\* C29 (as claimed): the checks run in the order tag, method, session: a
\* request with another tag is answered with invalid-request and touches
\* nothing, and a '2.0' request for a method that was never registered is
\* answered with method-not-found even when its session_id is missing or
\* invalid.
C29_ChecksInFixedOrder ==
  /\ C29_TagCheckedFirst
  /\ \A r \in Valid20 :
       (r.method \notin DOMAIN methodHandlers /\ BadSession(r)) =>
         LET o == Out(r) IN
         /\ o.settled.resp.isError
         /\ o.settled.resp.code = CODE_METHOD_NOT_FOUND
         /\ o.invoked = "none"

\* The requests that pass the session checks: a '2.0' request whose method
\* lookup yields something, for a method that is not exempt, with the id of
\* a session that is in the registry and was used less than an hour ago.
PassValidation ==
  {r \in Valid20 : /\ LookupHandler(methodHandlers, r.method) # Undefined
                   /\ r.method \notin ExemptMethods
                   /\ ~BadSession(r)}

\* Intervals shorter than one hour.
ShortIntervals == {0, ClockGrain, ONE_HOUR - 1}

\* C30: a session-required request that passes validation leaves its
\* session's lastAccessedAt at the current time, whether its handler returns,
\* throws in the call, or is still awaited (and so whatever it does later);
\* from then on, for less than an hour, the session validates and a sweep
\* keeps it.  mcp.session.end is touched like the others and then removes
\* the session itself.
C30_TouchedBeforeHandler ==
  /\ \A r \in PassValidation :
       LET o == Out(r) IN
       IF r.method = "mcp.session.end"
         THEN o.sessions = MapDelete(updateSessionActivity(sessions, r.sid, now), r.sid)
         ELSE /\ r.sid \in DOMAIN o.sessions
              /\ o.sessions[r.sid].lastAccessedAt = now
              /\ \A d \in ShortIntervals :
                   /\ validateSession(o.sessions, r.sid, now + d)
                   /\ r.sid \in DOMAIN cleanupSessions(o.sessions, now + d)
  /\ \A sid \in DOMAIN sessions : sessions[sid].lastAccessedAt <= now

\* A session created an hour ago or more is still valid after a sweep,
\* because a request touched it on the way; that request's handler failed.
C30_Witness ==
  /\ last.invoked = "getResource"
  /\ last.resp.isError
  /\ swept = {}
  /\ \E sid \in DOMAIN sessions :
       /\ now - sessions[sid].createdAt >= ONE_HOUR
       /\ sessions[sid].lastAccessedAt > sessions[sid].createdAt
       /\ validateSession(sessions, sid, now)

\* GET /health: api_ready is the authorized flag of getAuthState().
HealthApiReady(st) == st.isAuthorized

\* C27 (as claimed): in every reachable state the health endpoint's api_ready
\* is true exactly when an accessToken() call made at that moment would
\* succeed; in particular it is false once an OAuth token has expired.
C27_HealthReportsEffective ==
  HealthApiReady(authState) <=> Call.result.ok

\* The expiry days a caller of setToken may pass.
ExpiryDays == {1, 2, 30}

\* A step of setToken: it alone returns as "setToken", and it always emits.
SetTokenStep == lastAuth'.op = "setToken" /\ emitted' # emitted

\* C28: setToken replaces the auth state, whatever it was, with the injected
\* token, an expiry strictly later than the time of the call and the
\* authorized flag set; from the call until the last instant before that
\* expiry accessToken() returns exactly the injected token and leaves the
\* state alone, in the direct-token and in the OAuth method.
C28_SetTokenOverwrites ==
  [][/\ \A days \in ExpiryDays : SetTokenExpiry(wall, days) > wall
     /\ SetTokenStep =>
          \E token \in NotifiedTokens :
            /\ authState' = AuthState(token, granted', TRUE)
            /\ granted' \in {SetTokenExpiry(wall, days) : days \in ExpiryDays}
            /\ granted' > wall
            /\ \A t \in {wall, granted' - 1} :
                 AccessTokenCall(config, authState', t) =
                   AuthOutcome(authState', Returned("getAccessToken", Fixed(token)))]_vars

\* In the OAuth method accessToken() returned a token that setToken had
\* injected.
C28_Witness ==
  /\ OAuth
  /\ lastAuth = Returned("getAccessToken", Fixed("notified-token"))
  /\ authState = AuthState("notified-token", granted, TRUE)
  /\ granted > wall

\* The frames written for a received message.
Answers(msg) == {k \in DOMAIN outbox : outbox[k].msg = msg}

\* The received messages of a channel.
ReceivedOn(channel) == {msg \in DOMAIN inbox : inbox[msg].channel = channel}

\* The JSON-RPC parse-error code.
PARSE_ERROR == -32700

\* C21, the part that holds: every stdio line that fails to parse is
\* answered with exactly one line, an error envelope with the parse-error
\* code, and lines that arrive later are answered too.
C21_UnparseableLineAnswered ==
  \A msg \in ReceivedOn("stdio") :
    JSONparse(inbox[msg].text).threw =>
      /\ Cardinality(Answers(msg)) = 1
      /\ \A k \in Answers(msg) :
           /\ outbox[k].channel = "stdio"
           /\ outbox[k].envelope
           /\ outbox[k].body.isError
           /\ outbox[k].body.code = PARSE_ERROR
      /\ \A later \in ReceivedOn("stdio") :
           later > msg => (later \in awaiting \/ Answers(later) # {})

\* C21 (as claimed): every stdio line that fails to parse produces exactly
\* one output line, an error envelope with the parse-error code and
\* id = null, and the lines after it are still read.
C21_UnparseableLineGetsNullId ==
  /\ C21_UnparseableLineAnswered
  /\ \A msg \in ReceivedOn("stdio") :
       JSONparse(inbox[msg].text).threw =>
         \A k \in Answers(msg) : outbox[k].body.hasId /\ outbox[k].body.id = "null"

\* The text does not have the envelope shape at all: it is not JSON, or it
\* is JSON for null, a number or an array.
Shapeless(text) == text.raw \in MalformedTexts \cup NonObjectTexts

\* C22 (as claimed): on each transport every input without the envelope
\* shape is answered with a response envelope whose error code is the
\* parse-error code.
C22_ShapelessGetsParseError ==
  \A msg \in DOMAIN inbox :
    Shapeless(inbox[msg].text) =>
      /\ Cardinality(Answers(msg)) = 1
      /\ \A k \in Answers(msg) :
           /\ outbox[k].channel = inbox[msg].channel
           /\ outbox[k].envelope
           /\ outbox[k].body.isError
           /\ outbox[k].body.code = PARSE_ERROR

\* The received messages that are request objects on a socket or on stdio.
StreamRequests ==
  {msg \in DOMAIN inbox : /\ inbox[msg].channel \in {"ws", "stdio"}
                          /\ inbox[msg].text.raw = "envelope"}

\* C23: with several requests of a WebSocket or stdio channel in flight,
\* whatever the order in which their handlers complete, a request message
\* has no response while its handler is awaited and exactly one from then
\* on, written on the channel it came from with the request's own id; the
\* responses are written in the order of completion, not of arrival.
C23_OneResponseEach ==
  /\ awaiting \subseteq DOMAIN inbox
  /\ \A msg \in StreamRequests :
       /\ Cardinality(Answers(msg)) = IF msg \in awaiting THEN 0 ELSE 1
       /\ \A k \in Answers(msg) :
            /\ outbox[k].channel = inbox[msg].channel
            /\ outbox[k].envelope
            /\ outbox[k].body.hasId
            /\ outbox[k].body.id = inbox[msg].text.env.id
  /\ \A k \in DOMAIN outbox : Cardinality({j \in DOMAIN outbox : outbox[j].msg = outbox[k].msg}) = 1

\* Two requests with different ids were in flight on one socket; the one
\* that arrived later has its response, with its own id, while the earlier
\* one still awaits its handler.
C23_Witness ==
  \E early \in awaiting, late \in StreamRequests :
    /\ early < late
    /\ inbox[early].channel = "ws"
    /\ inbox[late].channel = "ws"
    /\ inbox[late].text.env.method = "mcp.resources.get"
    /\ inbox[early].text.env.id # inbox[late].text.env.id
    /\ \E k \in Answers(late) : outbox[k].body.id = inbox[late].text.env.id

\* The parameters each tool's schema in listTools declares as required.
RequiredOf(tool_id) ==
  CASE tool_id = "place-order" ->
         {"instrument_token", "transaction_type", "quantity", "order_type"}
    [] tool_id \in {"cancel-order", "get-order"} -> {"order_id"}
    [] OTHER -> {}

\* The required parameters a call leaves out.
MissingIn(args) == {name \in RequiredOf(args.tool_id) : args.params[name] = Undefined}

\* C24: an mcp.tools.execute call with a valid session is never answered
\* with an error envelope: executeTool is invoked and the response has a
\* result member with the request's id.  For an unknown tool_id, for a
\* missing required parameter and for a broker failure that result holds an
\* error object with a message: it contains the tool_id when the tool is
\* unknown and the name of a missing parameter when one is missing (order_id
\* for cancel-order), and in both cases no broker method was called.
C24_ToolFailuresAreResults ==
  (served.request.method = "mcp.tools.execute" /\ served.valid /\ ~served.pending) =>
    /\ served.invoked = "executeTool"
    /\ ~served.resp.isError
    /\ served.resp.id = served.request.id
    /\ served.body.kind = "tool"
    /\ served.body.isError => served.body.message # NoMessage
    /\ served.args.tool_id \notin KnownTools =>
         /\ served.body.isError
         /\ served.body.code = "TOOL_EXECUTION_ERROR"
         /\ Contains(served.body.message, served.args.tool_id)
         /\ ~served.brokerCalled
    /\ MissingIn(served.args) # {} =>
         /\ served.body.isError
         /\ \E name \in MissingIn(served.args) : Contains(served.body.message, name)
         /\ ~served.brokerCalled
    /\ ~served.body.isError => served.brokerCalled

\* cancel-order was called with a valid session and without order_id: the
\* response is a result whose error object names order_id.
C24_Witness ==
  /\ served.request.method = "mcp.tools.execute"
  /\ served.valid
  /\ served.args.tool_id = "cancel-order"
  /\ served.args.params.order_id = Undefined
  /\ ~served.resp.isError
  /\ served.body = ToolError("CANCEL_ORDER_ERROR",
                             Message("Missing required parameter: ", "order_id"))
  /\ ~served.brokerCalled

\* A step in which an mcp.resources.list call settled.
ListStep == served' # served /\ served'.request.method = "mcp.resources.list"

\* C25: mcp.resources.list with a valid session returns the one fixed
\* catalog, whatever the auth state and whatever was called before; the
\* catalog is not empty, has entries with the ids positions and orders, and
\* every entry has an id, a name and a description; the call calls no broker
\* method and leaves the auth state and the broker calls in flight alone.
C25_ListReturnsFixedCatalog ==
  [][/\ Len(ResourceCatalog) > 0
     /\ \E i \in DOMAIN ResourceCatalog : ResourceCatalog[i].id = "positions"
     /\ \E i \in DOMAIN ResourceCatalog : ResourceCatalog[i].id = "orders"
     /\ \A i \in DOMAIN ResourceCatalog :
          /\ ResourceCatalog[i].id # ""
          /\ ResourceCatalog[i].name # ""
          /\ ResourceCatalog[i].description # ""
     /\ (ListStep /\ served'.valid) =>
          /\ served'.invoked = "listResources"
          /\ ~served'.resp.isError
          /\ served'.resp.id = served'.request.id
          /\ served'.body.kind = "catalog"
          /\ served'.body.entries = ResourceCatalog
          /\ ~served'.brokerCalled
          /\ UNCHANGED authVars
          /\ UNCHANGED toolRun]_vars

\* The catalog was returned after a 401 had logged the auth manager out.
C25_Witness ==
  /\ served.request.method = "mcp.resources.list"
  /\ served.valid
  /\ served.body.entries = ResourceCatalog
  /\ authState = Unauthenticated
  /\ emitted.parity = 1

\* The live credentials are supplied under the names of the README sample,
\* for the live environment and the direct-token method.
ReadmeLiveSetup ==
  /\ environ.UPSTOX_ENVIRONMENT = "live"
  /\ environ.UPSTOX_AUTH_METHOD = "access_token"
  /\ environ.API_KEY # ""
  /\ environ.API_SECRET # ""
  /\ environ.ACCESS_TOKEN # ""

\* C26 (as claimed): with the live environment, the direct-token method and
\* the live credentials under the README's names API_KEY, API_SECRET and
\* ACCESS_TOKEN, loading and validating the configuration succeeds and the
\* active credentials are those values.
C26_ReadmeNamesAreActive ==
  (startup.done /\ ReadmeLiveSetup /\ environ.PORT = "") =>
    /\ startup.ok
    /\ startup.credentials =
         Credentials(environ.API_KEY, environ.API_SECRET, environ.ACCESS_TOKEN)

\* C26, the part that holds: whenever startup succeeds the active
\* credentials are those of the configured environment, read from the
\* LIVE_ variables for live and from the SANDBOX_ variables for sandbox.
C26_ActiveFollowEnvironment ==
  (startup.done /\ startup.ok) =>
    /\ startup.environment = "live" =>
         startup.credentials = Credentials(environ.LIVE_API_KEY, environ.LIVE_API_SECRET,
                                           environ.LIVE_ACCESS_TOKEN)
    /\ startup.environment = "sandbox" =>
         startup.credentials = Credentials(environ.SANDBOX_API_KEY,
                                           environ.SANDBOX_API_SECRET,
                                           environ.SANDBOX_ACCESS_TOKEN)
    /\ startup.credentials.apiKey # ""

\* ------------------------------- claims on exemption and concurrency

\* The three methods the claims name as session-exempt.
NamedExempt == {"mcp.discover", "mcp.session.start", "initialize"}

\* The function bound to each of them at startup.
ExemptHandlers == {"discoverClosure", "handleSessionStart", "handleClientInitialize"}

\* C31: a '2.0' request for mcp.discover, mcp.session.start or initialize
\* succeeds whatever session_id its params carry (none, a valid one, an
\* expired one, one that was ended or swept, one never issued): its handler
\* is called and its result returned in the same run, and every session the
\* registry held is still there with the record it had, lastAccessedAt
\* included.
C31_ExemptSkipSessionChecks ==
  \A r \in Valid20 :
    r.method \in NamedExempt =>
      LET o == Out(r) IN
      /\ ~o.pending
      /\ o.settled.resolved
      /\ ~o.settled.resp.isError
      /\ o.settled.resp.id = r.id
      /\ o.invoked \in ExemptHandlers
      /\ \A sid \in DOMAIN sessions :
           /\ sid \in DOMAIN o.sessions
           /\ o.sessions[sid] = sessions[sid]

\* A session was started while the registry held a session idle for an hour
\* or more, which still has the last-access time it had.
C31_Witness ==
  /\ last.invoked = "handleSessionStart"
  /\ ~last.resp.isError
  /\ \E sid \in DOMAIN sessions :
       /\ now - sessions[sid].lastAccessedAt >= ONE_HOUR
       /\ sessions[sid].lastAccessedAt = sessions[sid].createdAt
  /\ \E sid \in DOMAIN sessions : sessions[sid].createdAt = now /\ now > 0

\* C32 (as claimed): the sweep removes no session that an in-flight request
\* was validated for: no request awaiting its handler carries the id of a
\* session the cleanup timer has removed.  (An id is validated only while
\* its session is stored and ids are not reissued, so such a session was
\* removed after the validation.)
C32_SweepSparesSessionsInUse ==
  \A r \in inflight : r.sid \notin swept

\* The instants the auth clock has visited so far.
PastInstants ==
  {d * DAY + tod : d \in (0..MaxAuthDays) \cup
                         (SANDBOX_EXTRA_DAYS..(SANDBOX_EXTRA_DAYS + MaxAuthDays)),
                   tod \in TimesOfDay} \cap (0..wall)

\* The triples one operation writes as a whole at instant t: the constructor
\* and getAccessToken's fallback (the configured token), a successful code
\* exchange, setToken as the notifier calls it, and logout.
WholeWrites(t) ==
  {Unauthenticated}
  \cup {AuthState(getCredentials(config).accessToken, ConfigExpiry(t, config.environment), TRUE),
        AuthState(getCredentials(config).accessToken, FallbackExpiry(t, config.environment), TRUE)}
  \cup {AuthState(token, StandardExpiry(t), TRUE) : token \in UpstreamTokens}
  \cup {AuthState(token, SetTokenExpiry(t, days), TRUE) : token \in NotifiedTokens, days \in {1, 30}}

\* C33: under every interleaving of getAccessToken, code exchanges (started,
\* then completed or failed later), setToken and the logout a 401 forces,
\* the state that getAuthState and getAccessToken read is a triple one of
\* them wrote as a whole at some instant: a token with the expiry and the
\* flag of the same write, or null with no expiry and the flag false.
C33_StateWrittenWhole ==
  /\ \E t \in PastInstants : authState \in WholeWrites(t)
  /\ (authState.accessToken = NoToken) = (authState.tokenExpiry = NoExpiry)
  /\ (authState.accessToken = NoToken) = ~authState.isAuthorized
  /\ Call.state = authState \/ \E t \in PastInstants : Call.state \in WholeWrites(t)
  /\ Call.result.ok =>
       Call.result.value = Fixed(Call.state.accessToken) /\ Call.state.tokenExpiry > wall

\* A notified token is in the state, with its own expiry, while a code
\* exchange started by another transport is still awaiting the upstream.
C33_Witness ==
  /\ exchanges # {}
  /\ lastAuth.op = "setToken"
  /\ authState.accessToken \in NotifiedTokens
  /\ authState.tokenExpiry = granted

\* When the cleanup timer last ran (never: before the process started).
LastSweep == nextCleanup - SESSION_CLEANUP_INTERVAL

C35_LastRegistrationWins ==
  \A m \in RegistrableMethods, h \in RegistrableHandlers :
    LET H == registerMethod(methodHandlers, m, h) IN
    /\ ENABLED RegisterMethod(m, h)
    /\ DOMAIN H = DOMAIN methodHandlers \cup {m}
    /\ LookupHandler(H, m) = h
    /\ \A other \in (MethodNames \cup DOMAIN RegisteredAtStartup \cup RegistrableMethods) \ {m} :
         LookupHandler(H, other) = LookupHandler(methodHandlers, other)
    /\ \A r \in DispatchRequests :
         (r.method = m /\ (m \in ExemptMethods \/ ~BadSession(r))) =>
           processRequest(r, H, sessions, nextUuid, now).invoked = h

\* Two methods registered at startup have been registered again with each
\* other's handler, a method that had none has one now, and a request was
\* dispatched after that: mcp.discover would now be answered by listResources.
C35_Witness ==
  /\ methodHandlers["mcp.discover"] = "listResources"
  /\ methodHandlers["mcp.resources.list"] = "discoverClosure"
  /\ "mcp.prompts.list" \in DOMAIN methodHandlers
  /\ methodHandlers["mcp.prompts.list"] = "listTools"
  /\ last.invoked = "listTools"
  /\ Out(Envelope("2.0", "7", "mcp.discover", NoSid, NoVersion)).invoked = "listResources"

\* The ids uuidv4() has returned so far.
Issued == {sid \in IssuedIds : sid < nextUuid}

\* The methods registered at startup that require a session and are sent in
\* every run.
SessionMethods == {"mcp.session.end", "mcp.resources.list", "mcp.resources.get"}

\* C36: an issued session id that does not validate (its session expired,
\* was ended or was swept) does not validate after any step either, and a
\* session-required request that carries it is then rejected as invalid
\* without a handler being called: no request, handler completion, sweep or
\* passage of time makes the id valid again.
C36_InvalidityIsPermanent ==
  [][\A sid \in Issued :
       ~validateSession(sessions, sid, now) =>
         /\ ~validateSession(sessions', sid, now')
         /\ \A m \in SessionMethods :
              LET o == processRequest(Envelope("2.0", "7", m, sid, NoVersion),
                                      methodHandlers', sessions', nextUuid', now')
              IN /\ ~o.pending
                 /\ o.settled.resp.isError
                 /\ o.settled.resp.code = CODE_INVALID_SESSION
                 /\ o.invoked = "none"
                 /\ o.sessions = sessions']_vars

\* A request was rejected for its session after the timer had removed one,
\* while the registry holds another session that validates.
C36_Witness ==
  /\ swept # {}
  /\ last.resp.message = Fixed("Invalid or expired session")
  /\ \E sid \in DOMAIN sessions : validateSession(sessions, sid, now)
  /\ \E sid \in Issued : ~validateSession(sessions, sid, now)

\* C37: a request awaiting its handler can always be completed, whatever
\* has become of its session; when it completes it is answered under its
\* own id with the value its handler fulfilled with (or, had the handler
\* failed, with the internal error that names the failure), and the registry
\* is left as it is.  While it waits, a new request with the id of a session
\* that was removed meanwhile is rejected.
C37_ValidatedRequestCompletes ==
  [][\A r \in inflight :
       /\ ENABLED HandlerFulfils(r)
       /\ r.sid \notin DOMAIN sessions =>
            LET o == Out(r) IN ~o.pending /\ o.settled.resp.code = CODE_INVALID_SESSION
       /\ r \notin inflight' =>
            /\ last'.resolved
            /\ last'.resp.id = r.id
            /\ last'.invoked = "getResource"
            /\ \/ last'.resp = ResultResponse(r.id, Value("content", 0, NoVersion))
               \/ \E f \in HandlerFailures : last'.resp = catchBlock(r, f).resp
            /\ sessions' = sessions]_vars

\* A request is awaiting its handler and its session is gone: another
\* request ended it meanwhile.
C37_Witness ==
  \E r \in inflight :
    /\ r.sid \notin DOMAIN sessions
    /\ r.sid \notin swept
    /\ last.invoked = "handleSessionEnd"
    /\ ENABLED HandlerFulfils(r)

\* C38: every stored session is stored under its own id with createdAt <=
\* lastAccessedAt <= now, and no step (a request, a handler's completion, a
\* sweep, the passage of time) changes the createdAt of a session that stays
\* stored or moves its lastAccessedAt back; requests on one session
\* interleave with requests awaiting their handler on the same session.
C38_RegistryInvariant ==
  [][/\ \A sid \in DOMAIN sessions' :
          /\ sessions'[sid].id = sid
          /\ sessions'[sid].createdAt <= sessions'[sid].lastAccessedAt
          /\ sessions'[sid].lastAccessedAt <= now'
     /\ \A sid \in DOMAIN sessions \cap DOMAIN sessions' :
          /\ sessions'[sid].createdAt = sessions[sid].createdAt
          /\ sessions'[sid].lastAccessedAt >= sessions[sid].lastAccessedAt
     /\ now' >= now]_vars

\* Two sessions are stored, one of them used after its creation by a request
\* that is still awaiting its handler.
C38_Witness ==
  /\ Cardinality(DOMAIN sessions) = 2
  /\ \E r \in inflight :
       /\ r.sid \in DOMAIN sessions
       /\ sessions[r.sid].createdAt < sessions[r.sid].lastAccessedAt
       /\ sessions[r.sid].lastAccessedAt < now

\* An order the claim calls invalid: a required member is missing,
\* transaction_type or order_type is not one of the listed values, a LIMIT
\* or SL order has no numeric price, or an SL or SL-M order has no numeric
\* trigger_price.
InvalidOrder(p) ==
  \/ \E name \in {"instrument_token", "transaction_type", "quantity", "order_type"} :
       p[name] = Undefined
  \/ p.transaction_type \notin {"BUY", "SELL"}
  \/ p.order_type \notin {"MARKET", "LIMIT", "SL", "SL-M"}
  \/ p.order_type \in {"LIMIT", "SL"} /\ ~IsNumber(p.price)
  \/ p.order_type \in {"SL", "SL-M"} /\ ~IsNumber(p.trigger_price)

\* C39: no place-order call with an invalid order is awaiting the broker,
\* and a place-order call with an invalid order that reached the tool has
\* settled with a result that holds an error object of code
\* PLACE_ORDER_ERROR and a message, without the broker's placeOrder having
\* been called.
C39_InvalidOrderNeverSent ==
  /\ \A run \in toolRun :
       run.args.tool_id = "place-order" => ~InvalidOrder(run.args.params)
  /\ (/\ served.args.tool_id = "place-order"
      /\ served.invoked = "executeTool"
      /\ InvalidOrder(served.args.params)) =>
       /\ ~served.pending
       /\ ~served.brokerCalled
       /\ ~served.resp.isError
       /\ served.body.isError
       /\ served.body.code = "PLACE_ORDER_ERROR"
       /\ served.body.message # NoMessage

\* An SL order with a price and no trigger_price was refused by the tool,
\* and no broker method was called.
C39_Witness ==
  /\ served.args.tool_id = "place-order"
  /\ served.invoked = "executeTool"
  /\ served.args.params.order_type = "SL"
  /\ IsNumber(served.args.params.price)
  /\ served.args.params.trigger_price = Undefined
  /\ served.body = ToolError("PLACE_ORDER_ERROR",
                             Fixed("Trigger price is required for SL and SL-M orders"))
  /\ ~served.brokerCalled

====
